---- MODULE Spec2Model ----
\* Model of the visual-search backend (src/backend/app.py): the analyze_image
\* request handler, its zero-shot attribute classifier, brand resolver and
\* neighbourhood aggregator, and the three search handlers with the calls
\* they make to the embedding provider and the vector index; of the payment
\* ledger (src/backend/payments.py) with Stripe's webhook deliveries; of the
\* sketchbook tables (src/backend/sketchbook.py) and the routes over them;
\* and of the follow toggle of the Firestore API (api/FastAPI.py).
\*
\* Representation.
\*   - Text is a sequence of one-character strings, so that str.count, the
\*     `in` substring test, str.lower and str.title are computed character by
\*     character as Python computes them. The three non-ASCII characters of the
\*     source file are written "U+221A", "U+00AE" and "U+00BA".
\*   - Cosine similarities and distances are integers in thousandths
\*     (0.40 is 400); values rounded by round(x, 2) are integers in hundredths
\*     (0.95 is 95). Prices are integers in cents; a mean is kept as an exact
\*     fraction <<numerator, denominator>> of cents.
\*   - None is the empty tuple, like the empty string: the code treats the
\*     two alike wherever it reads a title or a description.
\*   - The response fields detected_item and description are display strings
\*     assembled from the other fields; they are not modelled.
EXTENDS Integers, Sequences, FiniteSets, TLC

\* request: the request being served; response: its response, Pending until
\* the handler returns; calls: how often each function has been called since
\* the process started.
\* db: the tables of the PostgreSQL database (payments.py, sketchbook.py);
\* stripe: the payment intents held by Stripe and the webhook events it has
\* emitted and not yet delivered; firestore: the documents of the Firestore
\* collections (api/FastAPI.py); running: the vote_in_poll calls in progress,
\* each with its position and local variables; returned: what the last
\* completed call returned to its caller.
VARIABLES request, response, calls, db, stripe, firestore, running, returned

vars == <<request, response, calls, db, stripe, firestore, running, returned>>

\* The state outside the image analysis service
stores == <<db, stripe, firestore, running, returned>>

None == <<>>

\* ---------------------------------------------------------------- text

LowerLetters ==
    << "a", "b", "c", "d", "e", "f", "g", "h", "i", "j", "k", "l", "m",
       "n", "o", "p", "q", "r", "s", "t", "u", "v", "w", "x", "y", "z" >>

UpperLetters ==
    << "A", "B", "C", "D", "E", "F", "G", "H", "I", "J", "K", "L", "M",
       "N", "O", "P", "Q", "R", "S", "T", "U", "V", "W", "X", "Y", "Z" >>

\* The lower-case and the upper-case form of each cased character
LowerOf ==
    [c \in {UpperLetters[i] : i \in DOMAIN UpperLetters} |->
        LowerLetters[CHOOSE i \in DOMAIN UpperLetters : UpperLetters[i] = c]]

UpperOf ==
    [c \in {LowerLetters[i] : i \in DOMAIN LowerLetters} |->
        UpperLetters[CHOOSE i \in DOMAIN LowerLetters : LowerLetters[i] = c]]

IsCased(c) == c \in DOMAIN LowerOf \/ c \in DOMAIN UpperOf

ToLower(c) == IF c \in DOMAIN LowerOf THEN LowerOf[c] ELSE c

ToUpper(c) == IF c \in DOMAIN UpperOf THEN UpperOf[c] ELSE c

\* str.lower()
lower(s) == [i \in DOMAIN s |-> ToLower(s[i])]

\* str.title(): a cased character is upper-cased when it follows an uncased
\* character (or starts the string) and lower-cased otherwise.
title(s) ==
    [i \in DOMAIN s |->
        IF i = 1 \/ ~IsCased(s[i - 1]) THEN ToUpper(s[i]) ELSE ToLower(s[i])]

RECURSIVE lstrip(_)
lstrip(s) == IF s # <<>> /\ Head(s) = " " THEN lstrip(Tail(s)) ELSE s

RECURSIVE rstrip(_)
rstrip(s) ==
    IF s # <<>> /\ s[Len(s)] = " " THEN rstrip(SubSeq(s, 1, Len(s) - 1)) ELSE s

\* str.strip()
strip(s) == rstrip(lstrip(s))

\* p occurs in t at position i
MatchAt(t, p, i) ==
    /\ i + Len(p) - 1 <= Len(t)
    /\ p # <<>> => t[i] = p[1]
    /\ SubSeq(t, i, i + Len(p) - 1) = p

\* Python's `p in t` for strings
contains(t, p) == \E i \in 1..(Len(t) - Len(p) + 1) : MatchAt(t, p, i)

\* The positions of t where p occurs
Occurrences(t, p) == {i \in 1..(Len(t) - Len(p) + 1) : MatchAt(t, p, i)}

\* str.count(p): the number of non-overlapping occurrences, scanning from the
\* left: an occurrence counts when it starts at or after the end of the last
\* one counted.
RECURSIVE CountFrom(_, _, _)
CountFrom(occ, width, from) ==
    LET rest == {i \in occ : i >= from}
    IN  IF rest = {} THEN 0
        ELSE 1 + CountFrom(rest, width, (CHOOSE i \in rest : \A j \in rest : i <= j) + width)

count(t, p) == CountFrom(Occurrences(t, p), Len(p), 1)

\* str.replace(old, new)
RECURSIVE ReplaceFrom(_, _, _, _)
ReplaceFrom(s, old, new, i) ==
    IF i > Len(s) THEN <<>>
    ELSE IF MatchAt(s, old, i) THEN new \o ReplaceFrom(s, old, new, i + Len(old))
    ELSE <<s[i]>> \o ReplaceFrom(s, old, new, i + 1)

replace(s, old, new) == ReplaceFrom(s, old, new, 1)

\* " ".join(parts)
RECURSIVE join(_)
join(parts) ==
    IF parts = <<>> THEN <<>>
    ELSE IF Len(parts) = 1 THEN parts[1]
    ELSE parts[1] \o <<" ">> \o join(Tail(parts))

\* ---------------------------------------------------------------- numbers

Min(a, b) == IF a < b THEN a ELSE b

Max(a, b) == IF a > b THEN a ELSE b

RECURSIVE SumSeq(_)
SumSeq(s) == IF s = <<>> THEN 0 ELSE Head(s) + SumSeq(Tail(s))

\* round(num / den) to an integer, ties to the even neighbour (Python's round)
RoundDiv(num, den) ==
    LET q == num \div den
        r == num % den
    IN  IF 2 * r < den THEN q
        ELSE IF 2 * r > den THEN q + 1
        ELSE IF q % 2 = 0 THEN q ELSE q + 1

\* round(x, 2) of a value in thousandths, as a value in hundredths
round2(x) == RoundDiv(x, 10)

\* ---------------------------------------------------------------- tables

brand_keywords ==
    << <<<<"p", "r", "a", "d", "a">>, <<"P", "r", "a", "d", "a">>>>,
       <<<<"g", "u", "c", "c", "i">>, <<"G", "u", "c", "c", "i">>>>,
       <<<<"l", "o", "u", "i", "s", " ", "v", "u", "i", "t", "t", "o", "n">>, <<"L", "o", "u", "i", "s", " ", "V", "u", "i", "t", "t", "o", "n">>>>,
       <<<<"l", "v">>, <<"L", "o", "u", "i", "s", " ", "V", "u", "i", "t", "t", "o", "n">>>>,
       <<<<"c", "h", "a", "n", "e", "l">>, <<"C", "h", "a", "n", "e", "l">>>>,
       <<<<"d", "i", "o", "r">>, <<"D", "i", "o", "r">>>>,
       <<<<"b", "a", "l", "e", "n", "c", "i", "a", "g", "a">>, <<"B", "a", "l", "e", "n", "c", "i", "a", "g", "a">>>>,
       <<<<"v", "e", "r", "s", "a", "c", "e">>, <<"V", "e", "r", "s", "a", "c", "e">>>>,
       <<<<"f", "e", "n", "d", "i">>, <<"F", "e", "n", "d", "i">>>>,
       <<<<"b", "u", "r", "b", "e", "r", "r", "y">>, <<"B", "u", "r", "b", "e", "r", "r", "y">>>>,
       <<<<"s", "a", "i", "n", "t", " ", "l", "a", "u", "r", "e", "n", "t">>, <<"S", "a", "i", "n", "t", " ", "L", "a", "u", "r", "e", "n", "t">>>>,
       <<<<"y", "s", "l">>, <<"Y", "S", "L">>>>,
       <<<<"h", "e", "r", "m", "e", "s">>, <<"H", "e", "r", "m", "U+221A", "U+00AE", "s">>>>,
       <<<<"h", "e", "r", "m", "U+221A", "U+00AE", "s">>, <<"H", "e", "r", "m", "U+221A", "U+00AE", "s">>>>,
       <<<<"g", "i", "v", "e", "n", "c", "h", "y">>, <<"G", "i", "v", "e", "n", "c", "h", "y">>>>,
       <<<<"v", "a", "l", "e", "n", "t", "i", "n", "o">>, <<"V", "a", "l", "e", "n", "t", "i", "n", "o">>>>,
       <<<<"s", "u", "p", "r", "e", "m", "e">>, <<"S", "u", "p", "r", "e", "m", "e">>>>,
       <<<<"p", "a", "l", "a", "c", "e">>, <<"P", "a", "l", "a", "c", "e">>>>,
       <<<<"b", "a", "p", "e">>, <<"B", "A", "P", "E">>>>,
       <<<<"a", " ", "b", "a", "t", "h", "i", "n", "g", " ", "a", "p", "e">>, <<"B", "A", "P", "E">>>>,
       <<<<"s", "t", "u", "s", "s", "y">>, <<"S", "t", "U+221A", "U+00BA", "s", "s", "y">>>>,
       <<<<"s", "t", "U+221A", "U+00BA", "s", "s", "y">>, <<"S", "t", "U+221A", "U+00BA", "s", "s", "y">>>>,
       <<<<"o", "f", "f", "-", "w", "h", "i", "t", "e">>, <<"O", "f", "f", "-", "W", "h", "i", "t", "e">>>>,
       <<<<"o", "f", "f", " ", "w", "h", "i", "t", "e">>, <<"O", "f", "f", "-", "W", "h", "i", "t", "e">>>>,
       <<<<"k", "i", "t", "h">>, <<"K", "i", "t", "h">>>>,
       <<<<"a", "n", "t", "i", " ", "s", "o", "c", "i", "a", "l", " ", "s", "o", "c", "i", "a", "l", " ", "c", "l", "u", "b">>, <<"A", "n", "t", "i", " ", "S", "o", "c", "i", "a", "l", " ", "S", "o", "c", "i", "a", "l", " ", "C", "l", "u", "b">>>>,
       <<<<"a", "s", "s", "c">>, <<"A", "S", "S", "C">>>>,
       <<<<"n", "i", "k", "e">>, <<"N", "i", "k", "e">>>>,
       <<<<"a", "d", "i", "d", "a", "s">>, <<"A", "d", "i", "d", "a", "s">>>>,
       <<<<"p", "u", "m", "a">>, <<"P", "u", "m", "a">>>>,
       <<<<"r", "e", "e", "b", "o", "k">>, <<"R", "e", "e", "b", "o", "k">>>>,
       <<<<"n", "e", "w", " ", "b", "a", "l", "a", "n", "c", "e">>, <<"N", "e", "w", " ", "B", "a", "l", "a", "n", "c", "e">>>>,
       <<<<"u", "n", "d", "e", "r", " ", "a", "r", "m", "o", "u", "r">>, <<"U", "n", "d", "e", "r", " ", "A", "r", "m", "o", "u", "r">>>>,
       <<<<"a", "s", "i", "c", "s">>, <<"A", "S", "I", "C", "S">>>>,
       <<<<"v", "a", "n", "s">>, <<"V", "a", "n", "s">>>>,
       <<<<"c", "o", "n", "v", "e", "r", "s", "e">>, <<"C", "o", "n", "v", "e", "r", "s", "e">>>>,
       <<<<"c", "h", "a", "m", "p", "i", "o", "n">>, <<"C", "h", "a", "m", "p", "i", "o", "n">>>>,
       <<<<"f", "i", "l", "a">>, <<"F", "i", "l", "a">>>>,
       <<<<"a", "m", "i", " ", "p", "a", "r", "i", "s">>, <<"A", "M", "I", " ", "P", "a", "r", "i", "s">>>>,
       <<<<"a", "m", "i">>, <<"A", "M", "I", " ", "P", "a", "r", "i", "s">>>>,
       <<<<"a", "c", "n", "e", " ", "s", "t", "u", "d", "i", "o", "s">>, <<"A", "c", "n", "e", " ", "S", "t", "u", "d", "i", "o", "s">>>>,
       <<<<"a", "c", "n", "e">>, <<"A", "c", "n", "e", " ", "S", "t", "u", "d", "i", "o", "s">>>>,
       <<<<"a", ".", "p", ".", "c">>, <<"A", ".", "P", ".", "C", ".">>>>,
       <<<<"a", "p", "c">>, <<"A", ".", "P", ".", "C", ".">>>>,
       <<<<"s", "t", "o", "n", "e", " ", "i", "s", "l", "a", "n", "d">>, <<"S", "t", "o", "n", "e", " ", "I", "s", "l", "a", "n", "d">>>>,
       <<<<"c", "p", " ", "c", "o", "m", "p", "a", "n", "y">>, <<"C", ".", "P", ".", " ", "C", "o", "m", "p", "a", "n", "y">>>>,
       <<<<"c", ".", "p", ".", " ", "c", "o", "m", "p", "a", "n", "y">>, <<"C", ".", "P", ".", " ", "C", "o", "m", "p", "a", "n", "y">>>>,
       <<<<"c", "a", "r", "h", "a", "r", "t", "t">>, <<"C", "a", "r", "h", "a", "r", "t", "t">>>>,
       <<<<"d", "i", "c", "k", "i", "e", "s">>, <<"D", "i", "c", "k", "i", "e", "s">>>>,
       <<<<"c", "a", "r", "h", "a", "r", "t", "t", " ", "w", "i", "p">>, <<"C", "a", "r", "h", "a", "r", "t", "t", " ", "W", "I", "P">>>>,
       <<<<"p", "o", "l", "o", " ", "r", "a", "l", "p", "h", " ", "l", "a", "u", "r", "e", "n">>, <<"P", "o", "l", "o", " ", "R", "a", "l", "p", "h", " ", "L", "a", "u", "r", "e", "n">>>>,
       <<<<"r", "a", "l", "p", "h", " ", "l", "a", "u", "r", "e", "n">>, <<"R", "a", "l", "p", "h", " ", "L", "a", "u", "r", "e", "n">>>>,
       <<<<"p", "o", "l", "o">>, <<"P", "o", "l", "o", " ", "R", "a", "l", "p", "h", " ", "L", "a", "u", "r", "e", "n">>>>,
       <<<<"t", "o", "m", "m", "y", " ", "h", "i", "l", "f", "i", "g", "e", "r">>, <<"T", "o", "m", "m", "y", " ", "H", "i", "l", "f", "i", "g", "e", "r">>>>,
       <<<<"t", "o", "m", "m", "y">>, <<"T", "o", "m", "m", "y", " ", "H", "i", "l", "f", "i", "g", "e", "r">>>>,
       <<<<"l", "a", "c", "o", "s", "t", "e">>, <<"L", "a", "c", "o", "s", "t", "e">>>>,
       <<<<"p", "a", "t", "a", "g", "o", "n", "i", "a">>, <<"P", "a", "t", "a", "g", "o", "n", "i", "a">>>>,
       <<<<"n", "o", "r", "t", "h", " ", "f", "a", "c", "e">>, <<"T", "h", "e", " ", "N", "o", "r", "t", "h", " ", "F", "a", "c", "e">>>>,
       <<<<"t", "h", "e", " ", "n", "o", "r", "t", "h", " ", "f", "a", "c", "e">>, <<"T", "h", "e", " ", "N", "o", "r", "t", "h", " ", "F", "a", "c", "e">>>>,
       <<<<"c", "o", "l", "u", "m", "b", "i", "a">>, <<"C", "o", "l", "u", "m", "b", "i", "a">>>>,
       <<<<"a", "r", "c", "t", "e", "r", "y", "x">>, <<"A", "r", "c", "'", "t", "e", "r", "y", "x">>>>,
       <<<<"a", "r", "c", "'", "t", "e", "r", "y", "x">>, <<"A", "r", "c", "'", "t", "e", "r", "y", "x">>>>,
       <<<<"z", "a", "r", "a">>, <<"Z", "a", "r", "a">>>>,
       <<<<"h", "&", "m">>, <<"H", "&", "M">>>>,
       <<<<"h", "m">>, <<"H", "&", "M">>>>,
       <<<<"u", "n", "i", "q", "l", "o">>, <<"U", "n", "i", "q", "l", "o">>>>,
       <<<<"g", "a", "p">>, <<"G", "a", "p">>>>,
       <<<<"o", "l", "d", " ", "n", "a", "v", "y">>, <<"O", "l", "d", " ", "N", "a", "v", "y">>>>,
       <<<<"f", "o", "r", "e", "v", "e", "r", " ", "2", "1">>, <<"F", "o", "r", "e", "v", "e", "r", " ", "2", "1">>>>,
       <<<<"p", "r", "i", "m", "a", "r", "k">>, <<"P", "r", "i", "m", "a", "r", "k">>>>,
       <<<<"l", "e", "v", "i", "'", "s">>, <<"L", "e", "v", "i", "'", "s">>>>,
       <<<<"l", "e", "v", "i", "s">>, <<"L", "e", "v", "i", "'", "s">>>>,
       <<<<"l", "e", "v", "i">>, <<"L", "e", "v", "i", "'", "s">>>>,
       <<<<"w", "r", "a", "n", "g", "l", "e", "r">>, <<"W", "r", "a", "n", "g", "l", "e", "r">>>>,
       <<<<"l", "e", "e">>, <<"L", "e", "e">>>>,
       <<<<"d", "i", "e", "s", "e", "l">>, <<"D", "i", "e", "s", "e", "l">>>>,
       <<<<"t", "r", "u", "e", " ", "r", "e", "l", "i", "g", "i", "o", "n">>, <<"T", "r", "u", "e", " ", "R", "e", "l", "i", "g", "i", "o", "n">>>>,
       <<<<"g", "-", "s", "t", "a", "r">>, <<"G", "-", "S", "t", "a", "r">>>> >>

text_brands ==
    { <<"p", "r", "a", "d", "a">>,
      <<"b", "a", "l", "e", "n", "c", "i", "a", "g", "a">>,
      <<"v", "e", "r", "s", "a", "c", "e">>,
      <<"f", "e", "n", "d", "i">>,
      <<"b", "u", "r", "b", "e", "r", "r", "y">>,
      <<"s", "a", "i", "n", "t", " ", "l", "a", "u", "r", "e", "n", "t">>,
      <<"y", "s", "l">>,
      <<"d", "i", "o", "r">>,
      <<"c", "h", "a", "n", "e", "l">>,
      <<"h", "e", "r", "m", "e", "s">>,
      <<"s", "u", "p", "r", "e", "m", "e">>,
      <<"p", "a", "l", "a", "c", "e">>,
      <<"b", "a", "p", "e">>,
      <<"s", "t", "u", "s", "s", "y">>,
      <<"o", "f", "f", "-", "w", "h", "i", "t", "e">>,
      <<"n", "i", "k", "e">>,
      <<"a", "d", "i", "d", "a", "s">>,
      <<"p", "u", "m", "a">>,
      <<"r", "e", "e", "b", "o", "k">>,
      <<"n", "e", "w", " ", "b", "a", "l", "a", "n", "c", "e">>,
      <<"u", "n", "d", "e", "r", " ", "a", "r", "m", "o", "u", "r">>,
      <<"a", "s", "i", "c", "s">>,
      <<"a", "m", "i">>,
      <<"a", "m", "i", " ", "p", "a", "r", "i", "s">>,
      <<"a", "c", "n", "e", " ", "s", "t", "u", "d", "i", "o", "s">>,
      <<"a", "p", "c">>,
      <<"a", ".", "p", ".", "c", ".">>,
      <<"s", "t", "o", "n", "e", " ", "i", "s", "l", "a", "n", "d">>,
      <<"c", "p", " ", "c", "o", "m", "p", "a", "n", "y">>,
      <<"c", ".", "p", ".", " ", "c", "o", "m", "p", "a", "n", "y">>,
      <<"p", "o", "l", "o">>,
      <<"p", "o", "l", "o", " ", "r", "a", "l", "p", "h", " ", "l", "a", "u", "r", "e", "n">>,
      <<"r", "a", "l", "p", "h", " ", "l", "a", "u", "r", "e", "n">>,
      <<"t", "o", "m", "m", "y", " ", "h", "i", "l", "f", "i", "g", "e", "r">>,
      <<"l", "a", "c", "o", "s", "t", "e">>,
      <<"c", "a", "r", "h", "a", "r", "t", "t">>,
      <<"d", "i", "c", "k", "i", "e", "s">>,
      <<"c", "h", "a", "m", "p", "i", "o", "n">>,
      <<"p", "a", "t", "a", "g", "o", "n", "i", "a">>,
      <<"n", "o", "r", "t", "h", " ", "f", "a", "c", "e">>,
      <<"c", "o", "l", "u", "m", "b", "i", "a">>,
      <<"v", "a", "n", "s">>,
      <<"c", "o", "n", "v", "e", "r", "s", "e">>,
      <<"z", "a", "r", "a">>,
      <<"h", "&", "m">>,
      <<"u", "n", "i", "q", "l", "o">>,
      <<"g", "a", "p">>,
      <<"l", "e", "v", "i", "'", "s">>,
      <<"l", "e", "v", "i", "s">>,
      <<"w", "r", "a", "n", "g", "l", "e", "r">>,
      <<"l", "e", "e">> }

distinctive_brand_names ==
    << <<"S", "u", "p", "r", "e", "m", "e">>,
       <<"N", "i", "k", "e">>,
       <<"A", "d", "i", "d", "a", "s">>,
       <<"G", "u", "c", "c", "i">>,
       <<"L", "o", "u", "i", "s", " ", "V", "u", "i", "t", "t", "o", "n">>,
       <<"P", "o", "l", "o", " ", "R", "a", "l", "p", "h", " ", "L", "a", "u", "r", "e", "n">>,
       <<"T", "o", "m", "m", "y", " ", "H", "i", "l", "f", "i", "g", "e", "r">>,
       <<"C", "h", "a", "m", "p", "i", "o", "n">>,
       <<"C", "a", "r", "h", "a", "r", "t", "t">>,
       <<"P", "a", "t", "a", "g", "o", "n", "i", "a">>,
       <<"T", "h", "e", " ", "N", "o", "r", "t", "h", " ", "F", "a", "c", "e">>,
       <<"V", "a", "n", "s">>,
       <<"C", "o", "n", "v", "e", "r", "s", "e">>,
       <<>> >>

color_names ==
    << <<"B", "l", "a", "c", "k">>,
       <<"W", "h", "i", "t", "e">>,
       <<"G", "r", "a", "y">>,
       <<"R", "e", "d">>,
       <<"B", "l", "u", "e">>,
       <<"N", "a", "v", "y">>,
       <<"G", "r", "e", "e", "n">>,
       <<"Y", "e", "l", "l", "o", "w">>,
       <<"O", "r", "a", "n", "g", "e">>,
       <<"P", "i", "n", "k">>,
       <<"P", "u", "r", "p", "l", "e">>,
       <<"B", "r", "o", "w", "n">>,
       <<"M", "u", "l", "t", "i", "c", "o", "l", "o", "r">> >>

pattern_names ==
    << "Solid", "Striped", "Graphic", "Floral", "Plaid", "Camo", "Tie-Dye", "Polka Dot", "Animal Print", "Abstract", "Denim Wash", "Embroidered" >>

category_names ==
    << "bomber_jacket", "parka", "denim_jacket", "blazer", "leather_jacket", "windbreaker", "hoodie", "cardigan", "crewneck_sweater", "vneck_sweater", "turtleneck", "fleece", "tshirt", "shirt", "polo", "tank", "blouse", "dress", "jeans", "chinos", "cargo_pants", "joggers", "shorts", "skirt", "running_shoes", "basketball_sneakers", "casual_sneakers", "boots", "sandals", "backpack", "tote_bag", "crossbody_bag", "hat" >>

category_mapping ==
    << <<"bomber_jacket", "outerwear">>,
       <<"parka", "outerwear">>,
       <<"denim_jacket", "outerwear">>,
       <<"blazer", "outerwear">>,
       <<"leather_jacket", "outerwear">>,
       <<"windbreaker", "outerwear">>,
       <<"hoodie", "outerwear">>,
       <<"cardigan", "outerwear">>,
       <<"crewneck_sweater", "outerwear">>,
       <<"vneck_sweater", "outerwear">>,
       <<"turtleneck", "outerwear">>,
       <<"fleece", "outerwear">>,
       <<"tshirt", "tops">>,
       <<"shirt", "tops">>,
       <<"polo", "tops">>,
       <<"tank", "tops">>,
       <<"blouse", "tops">>,
       <<"dress", "dresses">>,
       <<"jeans", "bottoms">>,
       <<"chinos", "bottoms">>,
       <<"cargo_pants", "bottoms">>,
       <<"joggers", "bottoms">>,
       <<"shorts", "bottoms">>,
       <<"skirt", "bottoms">>,
       <<"running_shoes", "shoes">>,
       <<"basketball_sneakers", "shoes">>,
       <<"casual_sneakers", "shoes">>,
       <<"boots", "shoes">>,
       <<"sandals", "shoes">>,
       <<"backpack", "bags">>,
       <<"tote_bag", "bags">>,
       <<"crossbody_bag", "bags">>,
       <<"hat", "accessories">> >>

material_keywords ==
    << <<<<"c", "o", "t", "t", "o", "n">>, <<<<"c", "o", "t", "t", "o", "n">>, <<"j", "e", "r", "s", "e", "y">>>>>>,
       <<<<"d", "e", "n", "i", "m">>, <<<<"d", "e", "n", "i", "m">>, <<"j", "e", "a", "n">>>>>>,
       <<<<"l", "e", "a", "t", "h", "e", "r">>, <<<<"l", "e", "a", "t", "h", "e", "r">>, <<"s", "u", "e", "d", "e">>>>>>,
       <<<<"w", "o", "o", "l">>, <<<<"w", "o", "o", "l">>, <<"c", "a", "s", "h", "m", "e", "r", "e">>, <<"m", "e", "r", "i", "n", "o">>>>>>,
       <<<<"s", "i", "l", "k">>, <<<<"s", "i", "l", "k">>, <<"s", "a", "t", "i", "n">>>>>>,
       <<<<"p", "o", "l", "y", "e", "s", "t", "e", "r">>, <<<<"p", "o", "l", "y", "e", "s", "t", "e", "r">>, <<"p", "o", "l", "y">>>>>>,
       <<<<"l", "i", "n", "e", "n">>, <<<<"l", "i", "n", "e", "n">>>>>>,
       <<<<"n", "y", "l", "o", "n">>, <<<<"n", "y", "l", "o", "n">>>>>>,
       <<<<"c", "a", "n", "v", "a", "s">>, <<<<"c", "a", "n", "v", "a", "s">>>>>> >>

size_keywords ==
    << <<"x", "s">>, <<"s">>, <<"m">>, <<"l">>, <<"x", "l">>, <<"x", "x", "l">> >>

\* ---------------------------------------------------------------- constants

\* search_similar(embedding, limit=10)
SEARCH_LIMIT == 10

\* (top_conf - conf) < 0.02
COLOR_MARGIN == 20

\* conf > 0.24
COLOR_FLOOR == 240

\* color_confidences.append(0.95); brand_confidence = 0.95
GPT4_CONFIDENCE == 950

\* text_brand_count >= 3
TEXT_BRAND_MIN_COUNT == 3

\* min(0.85, 0.6 + (text_brand_count * 0.08))
TEXT_BRAND_CONF_CAP == 850

TEXT_BRAND_CONF_BASE == 600

TEXT_BRAND_CONF_STEP == 80

\* visual_brand_confidence > 0.40
VISUAL_BRAND_THRESHOLD == 400

\* distance < 0.3, distance < 0.5
CONDITION_EXCELLENT_BELOW == 300

CONDITION_GOOD_BELOW == 500

\* len(prices) > 3, 3 * stdev
PRICE_FILTER_MIN_SAMPLES == 3

PRICE_FILTER_SIGMAS == 3

\* detected_materials[:3], detected_colors[:3]
LIST_CAP == 3

\* ---------------------------------------------------------------- classifier

\* tensor.argmax(): the index of the first maximal value
argmax(sims) ==
    CHOOSE i \in DOMAIN sims :
        /\ \A j \in DOMAIN sims : sims[j] <= sims[i]
        /\ \A j \in DOMAIN sims : j < i => sims[j] < sims[i]

\* The indices of the maximal values of sims outside `taken`
TopAmong(sims, taken) ==
    {i \in DOMAIN sims \ taken :
        \A j \in DOMAIN sims \ taken : sims[j] <= sims[i]}

\* tensor.argsort(descending=True)[:3]: the sort is not stable, so equal
\* values may come out in any order; every possible result is returned.
top_color_indices(sims) ==
    UNION {UNION {{<<a, b, c>> : c \in TopAmong(sims, {a, b})} :
                  b \in TopAmong(sims, {a})} :
           a \in TopAmong(sims, {})}

\* category_of with a lookup that never finds its key
category_of_default(detected_category_type) == "tops"

\* category = category_mapping.get(detected_category_type, "tops")
category_of(detected_category_type) ==
    IF \E i \in DOMAIN category_mapping : category_mapping[i][1] = detected_category_type
    THEN category_mapping[CHOOSE i \in DOMAIN category_mapping :
                              category_mapping[i][1] = detected_category_type][2]
    ELSE "tops"

\* secondary_colors without the absolute floor
RECURSIVE secondary_colors_no_floor(_, _, _, _)
secondary_colors_no_floor(sims, top_idx, top_conf, i) ==
    IF i > 3 THEN <<>>
    ELSE LET idx == top_idx[i]
             conf == sims[idx]
         IN  (IF (top_conf - conf) < COLOR_MARGIN THEN <<idx>> ELSE <<>>)
             \o secondary_colors_no_floor(sims, top_idx, top_conf, i + 1)

\* The secondary colours: ranks 2 and 3, kept when close to the primary and
\* above the absolute floor.
RECURSIVE secondary_colors(_, _, _, _)
secondary_colors(sims, top_idx, top_conf, i) ==
    IF i > 3 THEN <<>>
    ELSE LET idx == top_idx[i]
             conf == sims[idx]
         IN  (IF (top_conf - conf) < COLOR_MARGIN /\ conf > COLOR_FLOOR
              THEN <<idx>> ELSE <<>>)
             \o secondary_colors(sims, top_idx, top_conf, i + 1)

\* detect_colors that records the primary colour's score for every colour
detect_colors_top_confidence(gpt4_detected_color, sims, top_idx) ==
    IF gpt4_detected_color # <<>>
    THEN [colors |-> <<title(gpt4_detected_color)>>, confidences |-> <<GPT4_CONFIDENCE>>]
    ELSE LET top_conf == sims[top_idx[1]]
             kept == <<top_idx[1]>> \o secondary_colors(sims, top_idx, top_conf, 2)
         IN  [colors |-> [k \in DOMAIN kept |-> color_names[kept[k]]],
              confidences |-> [k \in DOMAIN kept |-> top_conf]]

\* detected_colors and color_confidences (thousandths) for one argsort result
detect_colors(gpt4_detected_color, sims, top_idx) ==
    IF gpt4_detected_color # <<>>
    THEN [colors |-> <<title(gpt4_detected_color)>>, confidences |-> <<GPT4_CONFIDENCE>>]
    ELSE LET top_conf == sims[top_idx[1]]
             kept == <<top_idx[1]>> \o secondary_colors(sims, top_idx, top_conf, 2)
         IN  [colors |-> [k \in DOMAIN kept |-> color_names[kept[k]]],
              confidences |-> [k \in DOMAIN kept |-> sims[kept[k]]]]

\* ---------------------------------------------------------------- direct read

NOT_A_VALUE ==
    { <<"u", "n", "k", "n", "o", "w", "n">>, <<"n", "o", "n", "e">>,
      <<"n", "/", "a">>, <<>> }

\* detected_text_on_image that keeps what was parsed before an exception
detected_text_on_image_keeps_partial(gpt4) ==
    IF gpt4.kind = "no_key" THEN <<>>
    ELSE LET brand_text == lower(strip(gpt4.brand))
         IN  IF brand_text \notin NOT_A_VALUE THEN brand_text ELSE <<>>

\* The parse of the vision model's reply. gpt4.kind is "reply" when the call
\* returned, and "no_key" or "error" when OPENAI_API_KEY is unset or the call
\* or the parse raised; gpt4.brand and gpt4.color are the texts that follow
\* "BRAND:" and "COLOR:" on their lines (empty when the line is missing).
detected_text_on_image(gpt4) ==
    IF gpt4.kind # "reply" THEN <<>>
    ELSE LET brand_text == lower(strip(gpt4.brand))
         IN  IF brand_text \notin NOT_A_VALUE THEN brand_text ELSE <<>>

gpt4_detected_color(gpt4) ==
    IF gpt4.kind # "reply" THEN <<>>
    ELSE LET color_text == strip(gpt4.color)
         IN  IF color_text \notin NOT_A_VALUE THEN color_text ELSE <<>>

\* ---------------------------------------------------------------- brand resolver

\* Step 1: the brand read off the image, matched against brand_keywords in
\* dictionary order (first hit wins), else title-cased when longer than 2.
gpt4_brand(detected_text) ==
    IF detected_text = <<>> THEN <<>>
    ELSE LET detected_lower == strip(lower(detected_text))
             hits == {i \in DOMAIN brand_keywords :
                         \/ brand_keywords[i][1] = detected_lower
                         \/ contains(detected_lower, brand_keywords[i][1])
                         \/ contains(brand_keywords[i][1], detected_lower)}
         IN  IF hits # {}
             THEN brand_keywords[CHOOSE i \in hits : \A j \in hits : i <= j][2]
             ELSE IF Len(detected_text) > 2 THEN title(detected_text)
             ELSE <<>>

\* Step 2: visual zero-shot over the distinctive brand labels
visual_brand(brand_similarities) == distinctive_brand_names[argmax(brand_similarities)]

visual_brand_confidence(brand_similarities) == brand_similarities[argmax(brand_similarities)]

\* Step 3: text mining. The loop keeps the first brand whose count beats the
\* running maximum; text_brands is a set, whose iteration order changes from
\* process to process, so any brand with the highest count can be the one kept.
text_mining(all_text) ==
    LET cnt == [b \in text_brands |-> count(all_text, b)]
        best == CHOOSE m \in {cnt[b] : b \in text_brands} :
                    \A b \in text_brands : cnt[b] <= m
    IN  IF best = 0
        THEN {[text_brand |-> <<>>, text_brand_count |-> 0]}
        ELSE {[text_brand |-> b, text_brand_count |-> best] :
                 b \in {x \in text_brands : cnt[x] = best}}

\* text_brand.title().replace("Ami Paris", "AMI Paris").replace("Ysl", "YSL").replace("Apc", "A.P.C.")
text_brand_display(text_brand) ==
    replace(
        replace(
            replace(title(text_brand),
                    <<"A", "m", "i", " ", "P", "a", "r", "i", "s">>,
                    <<"A", "M", "I", " ", "P", "a", "r", "i", "s">>),
            <<"Y", "s", "l">>, <<"Y", "S", "L">>),
        <<"A", "p", "c">>, <<"A", ".", "P", ".", "C", ".">>)

\* decide_brand with the text-mining tier ahead of the direct read
decide_brand_text_first(direct_brand, mined, vis_brand, vis_confidence) ==
    IF mined.text_brand_count >= TEXT_BRAND_MIN_COUNT
    THEN [detected_brand |-> text_brand_display(mined.text_brand),
          brand_confidence |->
              Min(TEXT_BRAND_CONF_CAP,
                  TEXT_BRAND_CONF_BASE + mined.text_brand_count * TEXT_BRAND_CONF_STEP)]
    ELSE IF direct_brand # <<>>
    THEN [detected_brand |-> direct_brand, brand_confidence |-> GPT4_CONFIDENCE]
    ELSE IF vis_confidence > VISUAL_BRAND_THRESHOLD /\ vis_brand # <<>>
    THEN [detected_brand |-> vis_brand, brand_confidence |-> vis_confidence]
    ELSE [detected_brand |-> <<>>, brand_confidence |-> 0]

\* decide_brand with the visual gate at >= 0.40
decide_brand_inclusive_gate(direct_brand, mined, vis_brand, vis_confidence) ==
    IF direct_brand # <<>>
    THEN [detected_brand |-> direct_brand, brand_confidence |-> GPT4_CONFIDENCE]
    ELSE IF mined.text_brand_count >= TEXT_BRAND_MIN_COUNT
    THEN [detected_brand |-> text_brand_display(mined.text_brand),
          brand_confidence |->
              Min(TEXT_BRAND_CONF_CAP,
                  TEXT_BRAND_CONF_BASE + mined.text_brand_count * TEXT_BRAND_CONF_STEP)]
    ELSE IF vis_confidence >= VISUAL_BRAND_THRESHOLD /\ vis_brand # <<>>
    THEN [detected_brand |-> vis_brand, brand_confidence |-> vis_confidence]
    ELSE [detected_brand |-> <<>>, brand_confidence |-> 0]

\* decide_brand with the text gate one occurrence lower
decide_brand_lower_gate(direct_brand, mined, vis_brand, vis_confidence) ==
    IF direct_brand # <<>>
    THEN [detected_brand |-> direct_brand, brand_confidence |-> GPT4_CONFIDENCE]
    ELSE IF mined.text_brand_count >= TEXT_BRAND_MIN_COUNT - 1
    THEN [detected_brand |-> text_brand_display(mined.text_brand),
          brand_confidence |->
              Min(TEXT_BRAND_CONF_CAP,
                  TEXT_BRAND_CONF_BASE + mined.text_brand_count * TEXT_BRAND_CONF_STEP)]
    ELSE IF vis_confidence > VISUAL_BRAND_THRESHOLD /\ vis_brand # <<>>
    THEN [detected_brand |-> vis_brand, brand_confidence |-> vis_confidence]
    ELSE [detected_brand |-> <<>>, brand_confidence |-> 0]

\* Step 4: the priority decision. brand_confidence is in thousandths.
decide_brand(direct_brand, mined, vis_brand, vis_confidence) ==
    IF direct_brand # <<>>
    THEN [detected_brand |-> direct_brand, brand_confidence |-> GPT4_CONFIDENCE]
    ELSE IF mined.text_brand_count >= TEXT_BRAND_MIN_COUNT
    THEN [detected_brand |-> text_brand_display(mined.text_brand),
          brand_confidence |->
              Min(TEXT_BRAND_CONF_CAP,
                  TEXT_BRAND_CONF_BASE + mined.text_brand_count * TEXT_BRAND_CONF_STEP)]
    ELSE IF vis_confidence > VISUAL_BRAND_THRESHOLD /\ vis_brand # <<>>
    THEN [detected_brand |-> vis_brand, brand_confidence |-> vis_confidence]
    ELSE [detected_brand |-> <<>>, brand_confidence |-> 0]

\* ---------------------------------------------------------------- aggregator

Truthy(text) == text # None /\ text # <<>>

HasTitle(r) == Truthy(r.title)

HasDescription(r) == Truthy(r.description)

\* HasPrice as a truthiness test, which drops a price of 0
HasPrice_truthy(r) == r.price # None /\ r.price[1] # 0

HasPrice(r) == r.price # None

titles(results) == LET kept == SelectSeq(results, HasTitle)
                   IN  [i \in DOMAIN kept |-> kept[i].title]

descriptions(results) == LET kept == SelectSeq(results, HasDescription)
                         IN  [i \in DOMAIN kept |-> kept[i].description]

\* a price is None or <<cents>>
prices(results) == LET kept == SelectSeq(results, HasPrice)
                   IN  [i \in DOMAIN kept |-> kept[i].price[1]]

\* The text the size, material and brand extraction read: the neighbours'
\* titles then descriptions, lower-cased, with the direct-read text in front.
all_text(results, detected_text) ==
    LET neighbour_text == lower(join(titles(results) \o descriptions(results)))
    IN  IF detected_text # <<>>
        THEN detected_text \o <<" ">> \o neighbour_text
        ELSE neighbour_text

RECURSIVE materials_from(_, _)
materials_from(text, i) ==
    IF i > Len(material_keywords) THEN <<>>
    ELSE LET keywords == material_keywords[i][2]
         IN  (IF \E k \in DOMAIN keywords : contains(text, keywords[k])
              THEN <<title(material_keywords[i][1])>> ELSE <<>>)
             \o materials_from(text, i + 1)

detected_materials(text) == materials_from(text, 1)

upper(s) == [i \in DOMAIN s |-> ToUpper(s[i])]

size_counts(text) == [i \in DOMAIN size_keywords |-> count(text, size_keywords[i])]

\* estimated_size that keeps the last key with the highest count
estimated_size_last_max(text) ==
    LET counts == size_counts(text)
        last == CHOOSE i \in DOMAIN counts :
                    /\ \A j \in DOMAIN counts : counts[j] <= counts[i]
                    /\ \A j \in DOMAIN counts : j > i => counts[j] < counts[i]
    IN  upper(size_keywords[last])

\* max(size_counts, key=...) returns the first key with the highest count
estimated_size(text) ==
    IF DOMAIN size_counts(text) # {}
    THEN upper(size_keywords[argmax(size_counts(text))])
    ELSE <<"M">>

\* estimated_condition with inclusive band limits
estimated_condition_inclusive(distance) ==
    IF distance <= CONDITION_EXCELLENT_BELOW THEN "excellent"
    ELSE IF distance <= CONDITION_GOOD_BELOW THEN "good"
    ELSE "fair"

estimated_condition(distance) ==
    IF distance < CONDITION_EXCELLENT_BELOW THEN "excellent"
    ELSE IF distance < CONDITION_GOOD_BELOW THEN "good"
    ELSE "fair"

\* WithinSigmas with the population standard deviation (division by n)
WithinSigmas_population(p, ps) ==
    LET n == Len(ps)
        S == SumSeq(ps)
        dev(x) == n * x - S
        sq == [i \in DOMAIN ps |-> dev(ps[i]) * dev(ps[i])]
    IN  dev(p) * dev(p) * n < PRICE_FILTER_SIGMAS * PRICE_FILTER_SIGMAS * SumSeq(sq)

\* abs(p - mean) < 3 * stdev, with mean = S / n and the sample standard
\* deviation stdev = sqrt(sum((p_i - mean)^2) / (n - 1)); both sides are
\* scaled by n and squared so that the comparison is exact.
WithinSigmas(p, ps) ==
    LET n == Len(ps)
        S == SumSeq(ps)
        dev(x) == n * x - S
        sq == [i \in DOMAIN ps |-> dev(ps[i]) * dev(ps[i])]
    IN  dev(p) * dev(p) * (n - 1) < PRICE_FILTER_SIGMAS * PRICE_FILTER_SIGMAS * SumSeq(sq)

filtered_prices(ps) == LET Keep(p) == WithinSigmas(p, ps) IN SelectSeq(ps, Keep)

\* estimated_price truncated to whole dollars
estimated_price_whole(ps) ==
    IF ps = <<>> THEN None
    ELSE <<((SumSeq(ps) \div Len(ps)) \div 100) * 100, 1>>

\* estimated_price in cents as a fraction <<numerator, denominator>>, or None
estimated_price(ps) ==
    IF ps = <<>> THEN None
    ELSE IF Len(ps) > PRICE_FILTER_MIN_SAMPLES
    THEN IF filtered_prices(ps) # <<>>
         THEN <<RoundDiv(SumSeq(filtered_prices(ps)), Len(filtered_prices(ps))), 1>>
         ELSE <<SumSeq(ps), Len(ps)>>
    ELSE <<RoundDiv(SumSeq(ps), Len(ps)), 1>>

\* overall_confidence without the clamp
overall_confidence_unclamped(distance) == 1000 - distance

\* max(0.0, min(1.0, 1.0 - distance)), thousandths
overall_confidence(distance) == Max(0, Min(1000, 1000 - distance))

\* ---------------------------------------------------------------- analyze_image

\* The 200 body of the "no similar items" early return
no_match_analysis(req, col) ==
    LET best_category_idx == argmax(req.category_similarities)
        category_confidence == req.category_similarities[best_category_idx]
        best_pattern_idx == argmax(req.pattern_similarities)
    IN  [likely_brand |-> <<>>,
         category |-> category_of(category_names[best_category_idx]),
         specific_category |-> category_names[best_category_idx],
         estimated_size |-> <<"M">>,
         estimated_condition |-> "excellent",
         colors |-> SubSeq(col.colors, 1, Min(LIST_CAP, Len(col.colors))),
         pattern |-> pattern_names[best_pattern_idx],
         materials |-> <<>>,
         estimated_price |-> None,
         confidence |-> round2(category_confidence),
         confidence_scores |->
             [category |-> round2(category_confidence),
              colors |-> [k \in DOMAIN col.confidences |-> round2(col.confidences[k])],
              pattern |-> round2(req.pattern_similarities[best_pattern_idx]),
              brand |-> 0]]

\* The 200 body when the index returned neighbours
full_analysis(req, col, mined) ==
    LET best_category_idx == argmax(req.category_similarities)
        category_confidence == req.category_similarities[best_category_idx]
        best_pattern_idx == argmax(req.pattern_similarities)
        detected_text == detected_text_on_image(req.gpt4)
        text == all_text(req.results, detected_text)
        brand == decide_brand(gpt4_brand(detected_text), mined,
                              visual_brand(req.brand_similarities),
                              visual_brand_confidence(req.brand_similarities))
        distance == req.results[1].distance
        materials == detected_materials(text)
    IN  [likely_brand |-> brand.detected_brand,
         category |-> category_of(category_names[best_category_idx]),
         specific_category |-> category_names[best_category_idx],
         estimated_size |-> estimated_size(text),
         estimated_condition |-> estimated_condition(distance),
         colors |-> SubSeq(col.colors, 1, Min(LIST_CAP, Len(col.colors))),
         pattern |-> pattern_names[best_pattern_idx],
         materials |-> SubSeq(materials, 1, Min(LIST_CAP, Len(materials))),
         estimated_price |-> estimated_price(prices(req.results)),
         confidence |-> round2(overall_confidence(distance)),
         confidence_scores |->
             [category |-> round2(category_confidence),
              colors |-> [k \in DOMAIN col.confidences |-> round2(col.confidences[k])],
              pattern |-> round2(req.pattern_similarities[best_pattern_idx]),
              brand |-> round2(brand.brand_confidence)]]

\* analyze_image that takes a failure of the index for an empty result
analyze_image_no_match_on_failure(req) ==
    IF req.image \in {"missing", "empty"}
    THEN {[status |-> 400, detail |-> "Image is required"]}
    ELSE IF req.image = "invalid_base64"
    THEN {[status |-> 400, detail |-> "Invalid base64 image data"]}
    ELSE IF req.embedding = "error"
    THEN {[status |-> 500, detail |-> "Analysis error"]}
    ELSE LET cols == {detect_colors(gpt4_detected_color(req.gpt4),
                                    req.color_similarities, t) :
                         t \in top_color_indices(req.color_similarities)}
         IN  IF req.results = <<>> \/ req.search = "error"
             THEN {[status |-> 200, body |-> no_match_analysis(req, col)] : col \in cols}
             ELSE {[status |-> 200, body |-> full_analysis(req, col, mined)] :
                      col \in cols,
                      mined \in text_mining(
                          all_text(req.results, detected_text_on_image(req.gpt4)))}

\* Every response analyze_image can give to req. More than one is possible
\* where the code depends on an unspecified order (argsort ties, the
\* iteration order of the text_brands set).
analyze_image(req) ==
    IF req.image \in {"missing", "empty"}
    THEN {[status |-> 400, detail |-> "Image is required"]}
    ELSE IF req.image = "invalid_base64"
    THEN {[status |-> 400, detail |-> "Invalid base64 image data"]}
    ELSE IF req.embedding = "error"
    THEN {[status |-> 500, detail |-> "Analysis error"]}
    ELSE IF req.search = "error"
    THEN {[status |-> 500, detail |-> "Analysis error"]}
    ELSE LET cols == {detect_colors(gpt4_detected_color(req.gpt4),
                                    req.color_similarities, t) :
                         t \in top_color_indices(req.color_similarities)}
         IN  IF req.results = <<>>
             THEN {[status |-> 200, body |-> no_match_analysis(req, col)] : col \in cols}
             ELSE {[status |-> 200, body |-> full_analysis(req, col, mined)] :
                      col \in cols,
                      mined \in text_mining(
                          all_text(req.results, detected_text_on_image(req.gpt4)))}

\* The functions analyze_image calls while it serves req, in the order of the
\* code: nothing before the payload is accepted; embed_image; the vision
\* model when OPENAI_API_KEY is set; model.encode on the category, colour and
\* pattern label phrases; search_similar; and, past the "no similar items"
\* return, model.encode on the brand label phrases.
analyze_image_calls(req) ==
    IF req.image # "ok" THEN {}
    ELSE IF req.embedding = "error" THEN {"embed_image"}
    ELSE {"embed_image", "encode_category_labels", "encode_color_labels",
          "encode_pattern_labels", "search_similar"}
         \cup (IF req.gpt4.kind # "no_key" THEN {"gpt4_vision"} ELSE {})
         \cup (IF req.search = "ok" /\ req.results # <<>>
               THEN {"encode_brand_labels"} ELSE {})

\* ---------------------------------------------------------------- search handlers

\* The DepopItem list built from the rows of the index
items_of(results) ==
    [i \in DOMAIN results |->
        [title |-> results[i].title,
         description |-> results[i].description,
         price |-> results[i].price,
         distance |-> results[i].distance]]

\* The tail shared by the three search handlers: embed, search, map
embed_and_search(req) ==
    IF req.embedding = "error"
    THEN {[status |-> 500, detail |-> "Embedding error"]}
    ELSE IF req.search = "error"
    THEN {[status |-> 500, detail |-> "Search error"]}
    ELSE {[status |-> 200, body |-> [items |-> items_of(req.results)]]}

embed_and_search_calls(req) ==
    IF req.embedding = "error" THEN {"embed_image"}
    ELSE {"embed_image", "search_similar"}

\* POST /search_by_image. The payload is a SearchRequest, whose image_base64
\* is a required string: a payload without it is refused before the handler
\* runs; the empty string is a string, and decodes to no bytes.
search_by_image(req) ==
    IF req.image = "missing"
    THEN {[status |-> 422, detail |-> "Field required"]}
    ELSE IF req.image = "invalid_base64"
    THEN {[status |-> 400, detail |-> "Invalid base64 image data"]}
    ELSE embed_and_search(req)

search_by_image_calls(req) ==
    IF req.image \in {"missing", "invalid_base64"} THEN {}
    ELSE embed_and_search_calls(req)

\* POST /search_by_text
search_by_text(req) ==
    LET query == strip(req.query)
    IN  IF query = <<>>
        THEN {[status |-> 400, detail |-> "Query text is required"]}
        ELSE embed_and_search(req)

search_by_text_calls(req) ==
    IF strip(req.query) = <<>> THEN {} ELSE embed_and_search_calls(req)

\* POST /search_combined
search_combined(req) ==
    LET query == strip(req.query)
        image_base64 == req.image \notin {"missing", "empty"}
    IN  IF query = <<>> /\ ~image_base64
        THEN {[status |-> 400,
               detail |-> "At least one of 'query' or 'image_base64' is required"]}
        ELSE IF image_base64 /\ req.image = "invalid_base64"
        THEN {[status |-> 400, detail |-> "Invalid base64 image data"]}
        ELSE embed_and_search(req)

search_combined_calls(req) ==
    LET query == strip(req.query)
        image_base64 == req.image \notin {"missing", "empty"}
    IN  IF query = <<>> /\ ~image_base64 THEN {}
        ELSE IF image_base64 /\ req.image = "invalid_base64" THEN {}
        ELSE embed_and_search_calls(req)

\* ---------------------------------------------------------------- stores

\* The database before any row is written: the two payment tables are
\* sequences of rows in insertion order, sketchbooks and sketchbook_posts are
\* functions from the row id, the other tables are sets of rows.
EmptyDb ==
    [transactions |-> <<>>, user_subscriptions |-> <<>>, sketchbooks |-> <<>>,
     sketchbook_memberships |-> {}, sketchbook_posts |-> <<>>,
     sketchbook_reactions |-> {}, sketchbook_poll_votes |-> {}]

\* Stripe with no payment intent created and no event to deliver
NoStripe == [intents |-> <<>>, events |-> {}]

\* Firestore with no document
EmptyFirestore == [users |-> <<>>, items |-> <<>>]

\* No call has returned yet
NoCall == [call |-> "none"]

\* Nothing stored, no call in progress, nothing returned
StoresIdle ==
    /\ db = EmptyDb
    /\ stripe = NoStripe
    /\ firestore = EmptyFirestore
    /\ running = <<>>
    /\ returned = NoCall

\* ---------------------------------------------------------------- requests

\* The largest neighbour lists explored: with varied text, and with varied prices
MaxTextNeighbors == 2

MaxPricedNeighbors == 4

\* The sequences over S of length at most n
SeqUpTo(S, n) == UNION {[1..k -> S] : k \in 0..n}

\* A similarity vector over n labels: `base` everywhere but at the labels of `over`
Peaked(n, base, over) == [i \in 1..n |-> IF i \in DOMAIN over THEN over[i] ELSE base]

\* (title, description) of the sample catalogue listings
Listings ==
    { <<<<"N", "i", "k", "e", " ", "T", "e", "e">>, <<>>>>,
      <<<<"N", "I", "K", "E", " ", "n", "i", "k", "e">>, <<"n", "i", "k", "e", " ", "a", "i", "r">>>>,
      <<<<"a", "d", "i", "d", "a", "s", " ", "t", "o", "p", " ", "X", "L">>, <<"A", "d", "i", "d", "a", "s">>>>,
      <<<<>>, <<"r", "e", "d", " ", "w", "o", "o", "l", " ", "c", "o", "a", "t", " ", "M">>>>,
      <<<<"A", "m", "i", " ", "P", "a", "r", "i", "s">>, <<"a", "m", "i", " ", "p", "a", "r", "i", "s", " ", "a", "m", "i", " ", "p", "a", "r", "i", "s">>>> }

DefaultNeighbour ==
    [title |-> <<"T", "e", "e">>, description |-> <<>>, price |-> <<1000>>, distance |-> 350]

\* Replies of the vision model, and its two failures
NoDirectRead == [kind |-> "no_key", brand |-> <<>>, color |-> <<>>]

NikeRead == [kind |-> "reply", brand |-> <<" ", "N", "i", "k", "e", " ">>, color |-> <<>>]

ShortRead == [kind |-> "reply", brand |-> <<" ", "X", "S">>, color |-> <<>>]

BrandReads == {NoDirectRead, NikeRead, ShortRead}

AllReads ==
    BrandReads \cup
    { [kind |-> "error", brand |-> <<" ", "N", "i", "k", "e">>, color |-> <<" ", "B", "l", "a", "c", "k">>],
      [kind |-> "reply", brand |-> <<" ", "u", "n", "k", "n", "o", "w", "n">>, color |-> <<" ", "u", "n", "k", "n", "o", "w", "n">>],
      [kind |-> "reply", brand |-> <<" ", "L", "V">>, color |-> <<" ", "N", "a", "v", "y">>],
      [kind |-> "reply", brand |-> <<" ", "A", "c", "m", "e", " ", "C", "o">>, color |-> <<" ", "n", "o", "n", "e">>],
      [kind |-> "reply", brand |-> <<" ", "C", "a", "r", "h", "a", "r", "t", "t", " ", "W", "I", "P">>, color |-> <<>>],
      [kind |-> "reply", brand |-> <<" ", "R", "a", "l", "p", "h", " ", "L", "a", "u", "r", "e", "n">>, color |-> <<>>],
      [kind |-> "reply", brand |-> <<" ", "C", "o", "t", "t", "o", "n", " ", "O", "n">>, color |-> <<>>],
      [kind |-> "reply", brand |-> <<" ", "N", "o", "r", "t", "h">>, color |-> <<>>] }

ColorReads ==
    { NoDirectRead,
      [kind |-> "reply", brand |-> <<>>, color |-> <<" ", "d", "a", "r", "k", " ", "g", "r", "a", "y">>] }

\* Label indices: category 7 is hoodie, 13 tshirt, 33 hat; colour 1 is Black,
\* 2 White, 6 Navy; pattern 1 is Solid, 3 Graphic; brand 2 is Nike, 14 the
\* "no clear brand" label.
CategoryCases ==
    {Peaked(33, 180, a :> v) : a \in {1, 13, 33}, v \in {262, 305}}
        \cup {Peaked(33, 180, 33 :> 180)}

PatternCases == {Peaked(12, 150, 3 :> 242), Peaked(12, 150, 1 :> 150)}

ColorLevels == {100, 240, 241, 260, 280, 290, 300, 500}

ColorCases ==
    {Peaked(13, 50, (1 :> b) @@ (2 :> w) @@ (6 :> n)) :
        b \in ColorLevels, w \in ColorLevels, n \in ColorLevels}

BrandCases ==
    {Peaked(14, 200, a :> v) : a \in {2, 14}, v \in {350, 400, 437}}

PriceSamples == {None, <<0>>, <<1000>>, <<2501>>}

DistanceSamples == {0, 290, 299, 300, 301, 490, 499, 500, 501, 995, 1000, 1200}

TextResults ==
    SeqUpTo({[DefaultNeighbour EXCEPT !.title = l[1], !.description = l[2]] :
                 l \in Listings},
            MaxTextNeighbors)

PricedResults ==
    SeqUpTo({[DefaultNeighbour EXCEPT !.price = p] : p \in PriceSamples},
            MaxPricedNeighbors)

\* One or two neighbours in ascending distance, as the index returns them
DistanceResults ==
    {<<[DefaultNeighbour EXCEPT !.distance = d]>> : d \in DistanceSamples}
        \cup {<<[DefaultNeighbour EXCEPT !.distance = d[1]],
                [DefaultNeighbour EXCEPT !.distance = d[2], !.price = <<2501>>,
                                         !.title = <<"w", "o", "o", "l", " ", "c", "o", "a", "t", " ", "M">>]>> :
                 d \in {e \in DistanceSamples \X DistanceSamples : e[1] <= e[2]}}

\* One neighbour whose title carries size tokens
SizeTitles ==
    { <<"X", "L">>, <<"X", "X", "L", " ", "x", "l">>, <<"L">>,
      <<"S", " ", "x", "s", " ", "m", " ", "M">>, <<"w", "o", "o", "l", " ", "X", "L", " ", "L", " ", "l">> }

SizeResults == {<<[DefaultNeighbour EXCEPT !.title = t]>> : t \in SizeTitles}

\* Four to SEARCH_LIMIT priced neighbours, all at one price but the last
OutlierPrices == {0, 1000, 1001, 2500}

OutlierResults ==
    {[i \in 1..n |-> [DefaultNeighbour EXCEPT !.price = <<IF i < n THEN 1000 ELSE b>>]] :
        n \in (PRICE_FILTER_MIN_SAMPLES + 1)..SEARCH_LIMIT, b \in OutlierPrices}

\* image is "ok", "invalid_base64" (not base64), "empty" (the empty string)
\* or "missing" (no such key in the payload); embedding and search say how
\* embed_image and search_similar answer when they are called.
BaseRequest ==
    [endpoint |-> "analyze_image",
     query |-> <<>>,
     image |-> "ok",
     embedding |-> "ok",
     gpt4 |-> NoDirectRead,
     category_similarities |-> Peaked(33, 180, 7 :> 262),
     color_similarities |-> Peaked(13, 50, (1 :> 262) @@ (2 :> 100) @@ (6 :> 100)),
     pattern_similarities |-> Peaked(12, 150, 3 :> 242),
     brand_similarities |-> Peaked(14, 200, 14 :> 300),
     search |-> "ok",
     results |-> <<DefaultNeighbour>>]

RejectedRequests ==
    { [BaseRequest EXCEPT !.image = "missing"],
      [BaseRequest EXCEPT !.image = "empty"],
      [BaseRequest EXCEPT !.image = "invalid_base64"],
      [BaseRequest EXCEPT !.embedding = "error"],
      [BaseRequest EXCEPT !.search = "error"] }

BrandRequests ==
    {[BaseRequest EXCEPT !.gpt4 = g, !.brand_similarities = b, !.results = r] :
        g \in BrandReads, b \in BrandCases, r \in TextResults}

ColorRequests ==
    {[BaseRequest EXCEPT !.gpt4 = g, !.color_similarities = c, !.results = r] :
        g \in ColorReads, c \in ColorCases, r \in {<<>>, <<DefaultNeighbour>>}}

CategoryRequests ==
    {[BaseRequest EXCEPT !.category_similarities = c, !.pattern_similarities = p,
                         !.results = r] :
        c \in CategoryCases, p \in PatternCases, r \in {<<>>, <<DefaultNeighbour>>}}

ReadRequests ==
    {[BaseRequest EXCEPT !.gpt4 = g, !.results = r] :
        g \in AllReads, r \in SeqUpTo({DefaultNeighbour}, 1)}

PriceRequests ==
    {[BaseRequest EXCEPT !.results = r] : r \in PricedResults \cup OutlierResults}

SizeRequests == {[BaseRequest EXCEPT !.results = r] : r \in SizeResults}

ConditionRequests == {[BaseRequest EXCEPT !.results = r] : r \in DistanceResults}

Requests ==
    RejectedRequests \cup BrandRequests \cup ReadRequests \cup ColorRequests
        \cup CategoryRequests
        \cup PriceRequests \cup ConditionRequests \cup SizeRequests

\* ---------------------------------------------------------------- specification

Pending == [status |-> 0]

\* What search_similar(embedding, limit) returns: at most `limit` neighbours,
\* in ascending distance
search_similar(results, limit) ==
    /\ Len(results) <= limit
    /\ \A i \in 1..(Len(results) - 1) : results[i].distance <= results[i + 1].distance

CallNames ==
    {"lifespan", "embed_image", "gpt4_vision", "encode_category_labels",
     "encode_color_labels", "encode_pattern_labels", "encode_brand_labels",
     "search_similar", "handler"}

\* The call counts after one more call of each function of `made`
Called(made) == [f \in CallNames |-> calls[f] + (IF f \in made THEN 1 ELSE 0)]

\* A started process that has served nothing yet
Started == [f \in CallNames |-> IF f = "lifespan" THEN 1 ELSE 0]

Init ==
    /\ request \in Requests
    /\ search_similar(request.results, SEARCH_LIMIT)
    /\ response = Pending
    /\ calls = Started
    /\ StoresIdle

\* POST /analyze_image: the whole handler, from the payload to the response
AnalyzeImage ==
    /\ calls["lifespan"] = 1
    /\ request.endpoint = "analyze_image"
    /\ response = Pending
    /\ response' \in analyze_image(request)
    /\ calls' = Called(analyze_image_calls(request) \cup {"handler"})
    /\ UNCHANGED <<request, stores>>

Next == AnalyzeImage

Spec == Init /\ [][Next]_vars

\* ---------------------------------------------------------------- service

\* The number of requests one process serves
MaxRequests == 2

Queries == {<<>>, <<" ", " ">>, <<" ", "t", "e", "e">>}

Images == {"ok", "invalid_base64", "empty", "missing"}

ServiceResults == {<<>>, <<DefaultNeighbour>>}

\* Requests to the four endpoints. search_by_image and analyze_image read no
\* query, search_by_text reads no image.
ServiceRequests ==
    {[BaseRequest EXCEPT !.endpoint = e, !.image = i, !.embedding = m,
                         !.search = s, !.results = r] :
        e \in {"search_by_image", "analyze_image"}, i \in Images,
        m \in {"ok", "error"}, s \in {"ok", "error"}, r \in ServiceResults}
    \cup
    {[BaseRequest EXCEPT !.endpoint = "search_by_text", !.query = q, !.image = "missing",
                         !.embedding = m, !.search = s, !.results = r] :
        q \in Queries, m \in {"ok", "error"}, s \in {"ok", "error"},
        r \in ServiceResults}
    \cup
    {[BaseRequest EXCEPT !.endpoint = "search_combined", !.query = q, !.image = i,
                         !.embedding = m, !.search = s, !.results = r] :
        q \in Queries, i \in Images, m \in {"ok", "error"},
        s \in {"ok", "error"}, r \in ServiceResults}

NotStarted == [f \in CallNames |-> 0]

ServiceInit ==
    /\ request \in ServiceRequests
    /\ response = Pending
    /\ calls = NotStarted
    /\ StoresIdle

\* lifespan: the startup half, which opens the database pool and preloads
\* the embedding models
Lifespan ==
    /\ calls["lifespan"] = 0
    /\ calls' = Called({"lifespan"})
    /\ UNCHANGED <<request, response, stores>>

SearchByImage ==
    /\ calls["lifespan"] = 1
    /\ request.endpoint = "search_by_image"
    /\ response = Pending
    /\ response' \in search_by_image(request)
    /\ calls' = Called(search_by_image_calls(request) \cup
                           (IF request.image = "missing" THEN {} ELSE {"handler"}))
    /\ UNCHANGED <<request, stores>>

SearchByText ==
    /\ calls["lifespan"] = 1
    /\ request.endpoint = "search_by_text"
    /\ response = Pending
    /\ response' \in search_by_text(request)
    /\ calls' = Called(search_by_text_calls(request) \cup {"handler"})
    /\ UNCHANGED <<request, stores>>

SearchCombined ==
    /\ calls["lifespan"] = 1
    /\ request.endpoint = "search_combined"
    /\ response = Pending
    /\ response' \in search_combined(request)
    /\ calls' = Called(search_combined_calls(request) \cup {"handler"})
    /\ UNCHANGED <<request, stores>>

\* The next request arrives once the last one is answered
NextRequest ==
    /\ response # Pending
    /\ calls["handler"] < MaxRequests
    /\ request' \in ServiceRequests
    /\ response' = Pending
    /\ UNCHANGED <<calls, stores>>

ServiceNext ==
    \/ Lifespan
    \/ SearchByImage
    \/ SearchByText
    \/ SearchCombined
    \/ AnalyzeImage
    \/ NextRequest

ServiceSpec == ServiceInit /\ [][ServiceNext]_vars

\* ---------------------------------------------------------------- properties

\* A 200 response carries an analysis
Analysed == response.status = 200

HasNeighbours == request.results # <<>>

\* The direct-read brand text, after the parse
DirectText == detected_text_on_image(request.gpt4)

\* The neighbours' text, lower-cased, as the extraction steps read it
NeighbourText == all_text(request.results, <<>>)

\* The highest occurrence count of a vocabulary brand in text
HighestBrandCount(text) ==
    LET counts == {count(text, b) : b \in text_brands}
    IN  CHOOSE m \in counts : \A c \in counts : c <= m

\* The highest value of a similarity vector
Highest(sims) == CHOOSE m \in {sims[i] : i \in DOMAIN sims} : \A i \in DOMAIN sims : sims[i] <= m

\* The visual zero-shot tier's answer: the first label with the highest
\* similarity, accepted above 0.40 unless it is the null label
VisualTierHolds ==
    LET sims == request.brand_similarities
        best == CHOOSE i \in DOMAIN sims :
                    sims[i] = Highest(sims) /\ \A j \in 1..(i - 1) : sims[j] < sims[i]
    IN  IF sims[best] > 400 /\ distinctive_brand_names[best] # <<>>
        THEN /\ response.body.likely_brand = distinctive_brand_names[best]
             /\ response.body.confidence_scores.brand = round2(sims[best])
        ELSE /\ response.body.likely_brand = <<>>
             /\ response.body.confidence_scores.brand = 0

\* C1 as stated: whenever the direct read reports a brand, the response has
\* that brand with brand confidence 0.95, for every neighbour set (the empty
\* one included) and whatever the text-mining and visual tiers would select.
C1_DirectReadAlwaysWins ==
    (Analysed /\ DirectText # <<>>) =>
        /\ response.body.likely_brand # <<>>
        /\ response.body.confidence_scores.brand = 95
        /\ request.gpt4 = NikeRead => response.body.likely_brand = <<"N", "i", "k", "e">>

\* C1 amended: when the index returns at least one neighbour and the direct
\* read resolves to a brand (an alias-table hit, or a text longer than two
\* characters), the response has that brand with brand confidence 0.95
\* whatever the other two tiers would select; with no neighbour the brand is
\* empty with confidence 0.0 whatever the direct read reports.
C1_DirectReadWins ==
    Analysed =>
        /\ (HasNeighbours /\ gpt4_brand(DirectText) # <<>>) =>
              /\ response.body.likely_brand = gpt4_brand(DirectText)
              /\ response.body.confidence_scores.brand = 95
              /\ request.gpt4 = NikeRead => response.body.likely_brand = <<"N", "i", "k", "e">>
        /\ ~HasNeighbours =>
              /\ response.body.likely_brand = <<>>
              /\ response.body.confidence_scores.brand = 0

\* C1 witness: the direct read says Nike while the neighbours' text names
\* another vocabulary brand three times, and the response says Nike at 0.95.
C1_Witness ==
    /\ Analysed
    /\ request.gpt4 = NikeRead
    /\ HasNeighbours
    /\ count(NeighbourText, <<"a", "m", "i">>) >= 3
    /\ response.body.likely_brand = <<"N", "i", "k", "e">>
    /\ response.body.confidence_scores.brand = 95

\* The zero-shot classifier's category for the request: the first label with
\* the highest similarity, and its coarse bucket in category_mapping
CategoryFromClassifier ==
    LET sims == request.category_similarities
    IN  \E i \in DOMAIN sims :
            /\ sims[i] = Highest(sims)
            /\ \A j \in 1..(i - 1) : sims[j] < sims[i]
            /\ response.body.specific_category = category_names[i]
            /\ \E k \in DOMAIN category_mapping :
                   /\ category_mapping[k][1] = category_names[i]
                   /\ category_mapping[k][2] = response.body.category

C3_VisualTier ==
    (Analysed /\ HasNeighbours /\ DirectText = <<>>
        /\ HighestBrandCount(NeighbourText) < 3) => VisualTierHolds

\* C3 witness: "adidas" occurs twice, the visual similarity is 0.35, and the
\* brand is empty with confidence 0.0.
C3_Witness ==
    /\ Analysed
    /\ HasNeighbours
    /\ DirectText = <<>>
    /\ count(NeighbourText, <<"a", "d", "i", "d", "a", "s">>) = 2
    /\ HighestBrandCount(NeighbourText) = 2
    /\ Highest(request.brand_similarities) = 350
    /\ response.body.likely_brand = <<>>
    /\ response.body.confidence_scores.brand = 0

\* C4: in the brand decision, with no direct-read brand: when the highest
\* occurrence count of a vocabulary brand in the neighbours' text is at least
\* 3, the brand is a brand with that count (in display form) and the
\* confidence is min(0.85, 0.6 + 0.08 * count), 0.84 for 3 and 0.85 from 4 on,
\* whatever the visual similarity; when it is 2 or less the text tier does
\* not answer (the visual tier does).
C4_TextTier ==
    (Analysed /\ HasNeighbours /\ DirectText = <<>>) =>
        LET best == HighestBrandCount(NeighbourText)
            formula == IF 600 + 80 * best < 850 THEN 600 + 80 * best ELSE 850
        IN  /\ best >= 3 =>
                /\ \E b \in text_brands :
                       /\ count(NeighbourText, b) = best
                       /\ response.body.likely_brand = text_brand_display(b)
                /\ response.body.confidence_scores.brand = round2(formula)
                /\ best = 3 => response.body.confidence_scores.brand = 84
                /\ best >= 4 => response.body.confidence_scores.brand = 85
            /\ best <= 2 => VisualTierHolds

\* C4 witness: a vocabulary brand occurs exactly three times while the visual
\* tier reads Nike at 0.437, and the brand is the text-mined one at 0.84.
C4_Witness ==
    /\ Analysed
    /\ HasNeighbours
    /\ DirectText = <<>>
    /\ HighestBrandCount(NeighbourText) = 3
    /\ request.brand_similarities[2] = 437
    /\ response.body.likely_brand = <<"A", "M", "I", " ", "P", "a", "r", "i", "s">>
    /\ response.body.confidence_scores.brand = 84

\* The index of a display name in color_names
ColorIndex(name) == CHOOSE i \in DOMAIN color_names : color_names[i] = name

\* The zero-shot colour rule: the first colour has the highest similarity;
\* every further colour is within the 0.02 margin of it and above the 0.24
\* floor, in descending order of similarity; and a label that meets margin
\* and floor is left out only when three colours at least as similar are kept.
ZeroShotColorRule ==
    LET sims == request.color_similarities
        cs == response.body.colors
        top == Highest(sims)
    IN  /\ Len(cs) \in 1..3
        /\ \A k \in DOMAIN cs : \E i \in DOMAIN color_names : color_names[i] = cs[k]
        /\ \A k, m \in DOMAIN cs : k # m => cs[k] # cs[m]
        /\ sims[ColorIndex(cs[1])] = top
        /\ \A k \in 2..Len(cs) :
               /\ top - sims[ColorIndex(cs[k])] < 20
               /\ sims[ColorIndex(cs[k])] > 240
               /\ sims[ColorIndex(cs[k])] <= sims[ColorIndex(cs[k - 1])]
        /\ \A l \in DOMAIN sims :
               (/\ \A k \in DOMAIN cs : ColorIndex(cs[k]) # l
                /\ top - sims[l] < 20
                /\ sims[l] > 240) =>
                   /\ Len(cs) = 3
                   /\ \A k \in DOMAIN cs : sims[ColorIndex(cs[k])] >= sims[l]
        /\ (sims[1] = 500 /\ \A l \in DOMAIN sims : l # 1 => sims[l] < 400) =>
               cs = <<<<"B", "l", "a", "c", "k">>>>
        /\ (sims[1] = 300 /\ sims[6] = 290 /\ sims[2] = 100) =>
               cs = <<<<"B", "l", "a", "c", "k">>, <<"N", "a", "v", "y">>>>

\* C5 as stated: the colours of every analysis follow the zero-shot rule (the
\* rank-1 colour always, ranks 2 and 3 within the margin and above the
\* floor), with between one and three entries.
C5_ColorsAlwaysZeroShot == Analysed => ZeroShotColorRule

\* C5 amended: when the vision model reports no colour, the colours follow
\* the zero-shot rule; when it reports one, the colours are that colour
\* alone, title-cased, with confidence 0.95, whatever the similarities are.
\* The list is never empty and never longer than 3.
C5_ColorSelection ==
    Analysed =>
        /\ Len(response.body.colors) \in 1..3
        /\ IF request.gpt4.kind = "reply"
              /\ strip(request.gpt4.color) \notin NOT_A_VALUE
           THEN /\ response.body.colors = <<title(strip(request.gpt4.color))>>
                /\ response.body.confidence_scores.colors = <<95>>
           ELSE ZeroShotColorRule

\* C5 witness: Black 0.30, Navy 0.29, White 0.10 and no colour from the
\* vision model give [Black, Navy].
C5_Witness ==
    /\ Analysed
    /\ gpt4_detected_color(request.gpt4) = <<>>
    /\ request.color_similarities[1] = 300
    /\ request.color_similarities[6] = 290
    /\ request.color_similarities[2] = 100
    /\ response.body.colors = <<<<"B", "l", "a", "c", "k">>, <<"N", "a", "v", "y">>>>

\* C6: estimated_condition depends on the top-1 neighbour's distance alone:
\* below 0.3 excellent, from 0.3 and below 0.5 good, from 0.5 fair.
C6_ConditionBands ==
    (Analysed /\ HasNeighbours) =>
        LET d == request.results[1].distance
        IN  /\ d < 300 => response.body.estimated_condition = "excellent"
            /\ (300 <= d /\ d < 500) => response.body.estimated_condition = "good"
            /\ d >= 500 => response.body.estimated_condition = "fair"

\* C6 witness: a top-1 distance of exactly 0.3 gives "good" although the
\* second neighbour is at 0.5.
C6_Witness ==
    /\ Analysed
    /\ Len(request.results) = 2
    /\ request.results[1].distance = 300
    /\ request.results[2].distance = 500
    /\ response.body.estimated_condition = "good"

\* The least and the greatest element of a non-empty sequence of numbers
Least(s) == CHOOSE x \in {s[i] : i \in DOMAIN s} : \A i \in DOMAIN s : x <= s[i]

Greatest(s) == CHOOSE x \in {s[i] : i \in DOMAIN s} : \A i \in DOMAIN s : s[i] <= x

\* The non-null neighbour prices, in cents
NeighbourPrices ==
    LET priced == SelectSeq(request.results, LAMBDA r : r.price # None)
    IN  [i \in DOMAIN priced |-> priced[i].price[1]]

\* The samples the estimate averages: those the 3-sigma filter keeps when
\* there are more than 3 and it keeps any, all of them otherwise
RetainedPrices ==
    IF Len(NeighbourPrices) > 3 /\ filtered_prices(NeighbourPrices) # <<>>
    THEN filtered_prices(NeighbourPrices)
    ELSE NeighbourPrices

\* C7: a non-null estimated_price lies between the least and the greatest of
\* the retained price samples.
C7_PriceWithinRetained ==
    (Analysed /\ response.body.estimated_price # None) =>
        LET est == response.body.estimated_price
        IN  /\ NeighbourPrices # <<>>
            /\ Least(RetainedPrices) * est[2] <= est[1]
            /\ est[1] <= Greatest(RetainedPrices) * est[2]

\* C7 witness: more than 3 samples that are not all equal, and an estimate.
C7_Witness ==
    /\ Analysed
    /\ Len(NeighbourPrices) > 3
    /\ Least(NeighbourPrices) < Greatest(NeighbourPrices)
    /\ response.body.estimated_price # None
    /\ Least(NeighbourPrices) * response.body.estimated_price[2] < response.body.estimated_price[1]

\* C8: estimated_price is null exactly when no retrieved neighbour carries a
\* non-null price; a price of 0 is a sample.
C8_PriceNullIffNoSample ==
    Analysed =>
        (response.body.estimated_price = None
            <=> \A i \in DOMAIN request.results : request.results[i].price = None)

\* C8 witness: the only priced neighbours are priced 0 and the estimate is 0.
C8_Witness ==
    /\ Analysed
    /\ \E i \in DOMAIN request.results : request.results[i].price = <<0>>
    /\ \A i \in DOMAIN request.results : request.results[i].price \in {None, <<0>>}
    /\ response.body.estimated_price = <<0, 1>>

\* C9: the size token with the highest occurrence count in the neighbours'
\* text is reported, and "M" when no token occurs in it; the size is never
\* unset.
C9_SizeFromTokens ==
    Analysed =>
        /\ response.body.estimated_size # <<>>
        /\ (HasNeighbours /\ DirectText = <<>>) =>
              LET counts == [i \in DOMAIN size_keywords |->
                                count(NeighbourText, size_keywords[i])]
              IN  IF \A i \in DOMAIN counts : counts[i] = 0
                  THEN response.body.estimated_size = <<"M">>
                  ELSE \E i \in DOMAIN counts :
                           /\ counts[i] = Highest(counts)
                           /\ response.body.estimated_size = upper(size_keywords[i])

C11_Deterministic ==
    Analysed =>
        \A other \in analyze_image(request) :
            other.body.colors = response.body.colors => other = response

\* ---------------------------------------------------------------- C12

\* C12: when the vector index fails, the request ends with an error response,
\* in each of the four handlers; it never ends with a successful response
\* (an empty item list, or the "no similar items" analysis).
C12_IndexFailureIsError ==
    (response # Pending /\ request.search = "error") =>
        /\ response.status >= 400
        /\ "body" \notin DOMAIN response

\* C12 witness: analyze_image got its embedding, called the index, the index
\* failed, and the response is a 500.
C12_Witness ==
    /\ request.endpoint = "analyze_image"
    /\ request.image = "ok"
    /\ request.embedding = "ok"
    /\ request.search = "error"
    /\ request.results = <<>>
    /\ calls["search_similar"] >= 1
    /\ response # Pending
    /\ response.status = 500

\* ---------------------------------------------------------------- C13

\* A reply of the vision model with neither a brand nor a colour line
EmptyReply == [kind |-> "reply", brand |-> <<>>, color |-> <<>>]

\* C13: when the vision read fails (the call or the parse raises, or no API
\* key is set), the direct-read brand and colour are both absent, the
\* handler answers exactly as it answers a request whose read returned
\* nothing, and the failure alone never makes the response an error.
C13_VisionReadFailsOpen ==
    (response # Pending /\ request.gpt4.kind # "reply") =>
        /\ DirectText = <<>>
        /\ gpt4_detected_color(request.gpt4) = <<>>
        /\ analyze_image(request) = analyze_image([request EXCEPT !.gpt4 = EmptyReply])
        /\ (request.image = "ok" /\ request.embedding = "ok" /\ request.search = "ok")
               => response.status = 200

\* C13 witness: the read raised after a brand and a colour line had been
\* parsed, neighbours exist, and the analysis carries no direct-read brand.
C13_Witness ==
    /\ request.gpt4.kind = "error"
    /\ request.gpt4.brand # <<>>
    /\ request.gpt4.color # <<>>
    /\ HasNeighbours
    /\ Analysed
    /\ response.body.confidence_scores.brand # 95
    /\ response.body.colors = <<<<"B", "l", "a", "c", "k">>>>
    /\ response.body.confidence_scores.colors = <<26>>

\* ---------------------------------------------------------------- C14

\* The request carries a non-empty image; a non-blank text
HasImage(req) ==
    req.endpoint # "search_by_text" /\ req.image \notin {"missing", "empty"}

HasText(req) ==
    req.endpoint \in {"search_by_text", "search_combined"} /\ strip(req.query) # <<>>

\* C14: a request with neither a non-empty image nor a non-empty text is
\* answered with a 4xx response, and serving it calls neither the embedding
\* provider nor the vector index.
C14_NoInputRejected ==
    [][(response = Pending /\ response' # Pending
            /\ ~HasImage(request) /\ ~HasText(request)) =>
          /\ response'.status \in 400..499
          /\ calls'["embed_image"] = calls["embed_image"]
          /\ calls'["search_similar"] = calls["search_similar"]]_vars

\* ---------------------------------------------------------------- C15

LabelEncodings ==
    {"encode_category_labels", "encode_color_labels", "encode_pattern_labels",
     "encode_brand_labels"}

\* C15: over any sequence of requests served by one process, the label-phrase
\* embeddings of each vocabulary are computed at most once.
C15_LabelsEncodedOnce == \A f \in LabelEncodings : calls[f] <= 1

\* ---------------------------------------------------------------- C16

\* The alias-table keys that occur in text
ContainedKeys(text) ==
    {i \in DOMAIN brand_keywords : contains(text, brand_keywords[i][1])}

\* C16: with neighbours, a direct-read text that contains an alias-table key
\* resolves to the canonical name of a key it contains ("lv" to "Louis
\* Vuitton"); a text that contains none resolves to itself, title-cased; in
\* both cases with brand confidence 0.95.
C16_DirectReadCanonical ==
    (Analysed /\ HasNeighbours /\ DirectText # <<>>) =>
        /\ IF ContainedKeys(DirectText) # {}
           THEN \E i \in ContainedKeys(DirectText) :
                    response.body.likely_brand = brand_keywords[i][2]
           ELSE response.body.likely_brand = title(DirectText)
        /\ response.body.confidence_scores.brand = 95
        /\ DirectText = <<"l", "v">> =>
               response.body.likely_brand =
                   <<"L", "o", "u", "i", "s", " ", "V", "u", "i", "t", "t", "o", "n">>

\* ---------------------------------------------------------------- C17

\* Every colour is a display name of the taxonomy, reported with its own
\* similarity rounded to 2 decimals
ColorsInTaxonomy ==
    /\ DOMAIN response.body.confidence_scores.colors = DOMAIN response.body.colors
    /\ \A k \in DOMAIN response.body.colors :
           \E i \in DOMAIN color_names :
               /\ response.body.colors[k] = color_names[i]
               /\ response.body.confidence_scores.colors[k] =
                      round2(request.color_similarities[i])

\* C17 as stated: every entry of colors is one of the 13 display names, and
\* its entry of confidence_scores.colors is that label's similarity, rounded.
C17_ColorsAlwaysInTaxonomy == Analysed => ColorsInTaxonomy

\* C17 amended: that holds when the vision model reports no colour; when it
\* reports one, colors is that text alone, title-cased, whether or not it is
\* a display name, and its confidence is 0.95.
C17_ColorsInTaxonomyOrRead ==
    Analysed =>
        IF gpt4_detected_color(request.gpt4) = <<>>
        THEN ColorsInTaxonomy
        ELSE /\ response.body.colors = <<title(gpt4_detected_color(request.gpt4))>>
             /\ response.body.confidence_scores.colors = <<95>>

\* C17 witness: two colours from the classifier with different scores, each
\* reported with its own.
C17_Witness ==
    /\ Analysed
    /\ gpt4_detected_color(request.gpt4) = <<>>
    /\ response.body.colors = <<<<"B", "l", "a", "c", "k">>, <<"N", "a", "v", "y">>>>
    /\ response.body.confidence_scores.colors = <<30, 29>>

\* ---------------------------------------------------------------- C18

\* C18: with the same neighbour list, whatever the vision model reads, the
\* analysis reports the same estimated_size and the same materials.
C18_SizeAndMaterialsFromNeighbours ==
    (Analysed /\ HasNeighbours) =>
        \A g \in AllReads :
            \A other \in analyze_image([request EXCEPT !.gpt4 = g]) :
                /\ other.body.estimated_size = response.body.estimated_size
                /\ other.body.materials = response.body.materials

\* ---------------------------------------------------------------- C19

\* The mean of a non-empty price list, rounded to the cent
RoundedMean(ps) == RoundDiv(SumSeq(ps), Len(ps))

AllEqual(ps) == \A i \in DOMAIN ps : ps[i] = ps[1]

\* C19: for up to 10 priced neighbours the 3-sigma filter keeps every sample,
\* or none when all prices are equal, and estimated_price is the mean of all
\* the non-null prices, up to rounding to the cent.
C19_FilterNeverTrims ==
    (Analysed /\ NeighbourPrices # <<>>) =>
        /\ Len(NeighbourPrices) <= SEARCH_LIMIT
        /\ Len(NeighbourPrices) > PRICE_FILTER_MIN_SAMPLES =>
               IF AllEqual(NeighbourPrices)
               THEN filtered_prices(NeighbourPrices) = <<>>
               ELSE filtered_prices(NeighbourPrices) = NeighbourPrices
        /\ response.body.estimated_price # None
        /\ RoundDiv(response.body.estimated_price[1], response.body.estimated_price[2])
               = RoundedMean(NeighbourPrices)

\* C19 witness: ten priced neighbours, nine at 10.00 and one at 25.00, and an
\* estimate of 11.50.
C19_Witness ==
    /\ Analysed
    /\ Len(NeighbourPrices) = SEARCH_LIMIT
    /\ Least(NeighbourPrices) = 1000
    /\ Greatest(NeighbourPrices) = 2500
    /\ response.body.estimated_price = <<1150, 1>>

\* ---------------------------------------------------------------- C20

\* The text the size extraction reads
SizeText == all_text(request.results, DirectText)

\* C20: with neighbours, estimated_size is XS, S, M or L, never XL or XXL:
\* "s" occurs at least as often as "xs" and "l" as often as "xl", which occurs
\* as often as "xxl", and of the keys with the highest count the earliest in
\* the order xs, s, m, l, xl, xxl is reported.
C20_SizeNeverXL ==
    (Analysed /\ HasNeighbours) =>
        LET c == size_counts(SizeText)
        IN  /\ response.body.estimated_size
                   \in {<<"X", "S">>, <<"S">>, <<"M">>, <<"L">>}
            /\ c[2] >= c[1]
            /\ c[4] >= c[5]
            /\ c[5] >= c[6]
            /\ \E i \in DOMAIN c :
                   /\ response.body.estimated_size = upper(size_keywords[i])
                   /\ \A j \in DOMAIN c : c[j] <= c[i]
                   /\ \A j \in 1..(i - 1) : c[j] < c[i]

\* C20 witness: the only size token in the neighbours' text is XL, and the
\* estimate is L.
C20_Witness ==
    /\ Analysed
    /\ HasNeighbours
    /\ size_counts(SizeText) = <<0, 0, 0, 1, 1, 0>>
    /\ response.body.estimated_size = <<"L">>

\* ---------------------------------------------------------------- payments

\* The number of payment intents created in one behaviour
MaxIntents == 2

PaymentUsers == {"buyer_1"}

\* Plan ids are text: a sequence of characters
SubscriptionPlans == {<<"p", "r", "o">>}

\* Amounts charged, in cents, and the cumulative amounts a charge can have
\* had refunded
ChargeCents == {2500}

RefundCents == {1000, 2500}

\* Stripe names payment intent k and its charge
PaymentIntentId(k) == <<"pi", k>>

ChargeId(k) == <<"ch", k>>

\* confirm_payment's status_mapping, with the default of its .get
status_mapping(stripe_status) ==
    CASE stripe_status = "succeeded" -> "completed"
      [] stripe_status = "processing" -> "processing"
      [] stripe_status = "requires_action" -> "pending"
      [] stripe_status = "requires_capture" -> "pending"
      [] stripe_status = "canceled" -> "cancelled"
      [] stripe_status = "requires_payment_method" -> "failed"
      [] stripe_status = "requires_confirmation" -> "pending"
      [] OTHER -> "pending"

\* INSERT INTO transactions: the columns the insert names; stripe_charge_id
\* and refund_amount are not among them and start NULL
create_transaction_record(d, buyer_id, type, stripe_payment_intent_id, metadata) ==
    [d EXCEPT !.transactions = Append(@,
        [buyer_id |-> buyer_id, type |-> type, status |-> "pending",
         stripe_payment_intent_id |-> stripe_payment_intent_id,
         stripe_charge_id |-> None, refund_amount |-> None,
         metadata |-> metadata])]

\* INSERT INTO user_subscriptions
create_subscription_record(d, user_id, plan_id, stripe_payment_intent_id) ==
    [d EXCEPT !.user_subscriptions = Append(@,
        [user_id |-> user_id, plan_id |-> plan_id, status |-> "pending",
         stripe_payment_intent_id |-> stripe_payment_intent_id])]

\* UPDATE user_subscriptions SET status = 'active' WHERE user_id, plan_id
\* match and status = 'pending'; nothing without a plan_id
activate_subscription(d, user_id, plan_id) ==
    IF plan_id = None THEN d
    ELSE [d EXCEPT !.user_subscriptions =
            [k \in DOMAIN @ |->
                IF /\ @[k].user_id = user_id
                   /\ @[k].plan_id = plan_id
                   /\ @[k].status = "pending"
                THEN [@[k] EXCEPT !.status = "active"] ELSE @[k]]]

\* The post-payment step, by transaction type. Marking the item sold and the
\* notifications write to no modelled table. metadata.plan_id is None where
\* the metadata has no such key, as .get("plan_id") gives.
handle_successful_payment(d, transaction) ==
    IF transaction.type = "brand_subscription"
    THEN activate_subscription(d, transaction.buyer_id, transaction.metadata.plan_id)
    ELSE d

\* The rows of transactions whose column `column` equals `value`
TransactionsWhere(d, column, value) ==
    {k \in DOMAIN d.transactions : d.transactions[k][column] = value}

\* confirm_payment(payment_intent_id), given the intent Stripe retrieves:
\* the database afterwards and the exception raised, if any
confirm_payment(d, payment_intent_id, payment_intent) ==
    LET new_status == status_mapping(payment_intent.status)
        matched == TransactionsWhere(d, "stripe_payment_intent_id", payment_intent_id)
        updated == [d EXCEPT !.transactions =
                      [k \in DOMAIN @ |->
                          IF k \in matched THEN [@[k] EXCEPT !.status = new_status]
                          ELSE @[k]]]
        result == updated.transactions[CHOOSE k \in matched : \A j \in matched : k <= j]
    IN  IF matched = {} THEN [db |-> d, raised |-> "ValueError"]
        ELSE IF payment_intent.status = "succeeded"
        THEN [db |-> handle_successful_payment(updated, result), raised |-> None]
        ELSE [db |-> updated, raised |-> None]

\* handle_failed_payment: UPDATE transactions SET status = 'failed'
\* WHERE stripe_payment_intent_id is the event's intent
handle_failed_payment(d, payment_intent) ==
    LET matched == TransactionsWhere(d, "stripe_payment_intent_id", payment_intent.id)
    IN  [d EXCEPT !.transactions =
            [k \in DOMAIN @ |->
                IF k \in matched THEN [@[k] EXCEPT !.status = "failed"] ELSE @[k]]]

\* handle_refund: UPDATE transactions SET status = 'refunded', refund_amount
\* WHERE stripe_charge_id is the event's charge. amount_refunded / 100 is
\* kept as the fraction <<cents, 100>> of dollars.
handle_refund(d, charge) ==
    LET matched == TransactionsWhere(d, "stripe_charge_id", charge.id)
        refund_amount == <<charge.amount_refunded, 100>>
    IN  [d EXCEPT !.transactions =
            [k \in DOMAIN @ |->
                IF k \in matched
                THEN [@[k] EXCEPT !.status = "refunded", !.refund_amount = refund_amount]
                ELSE @[k]]]

\* handle_stripe_webhook, after the signature check: dispatch on the event
\* type. The intent confirm_payment retrieves is Stripe's current one.
handle_stripe_webhook(d, event, intents) ==
    CASE event.type = "payment_intent.succeeded" ->
            confirm_payment(d, event.object.id, intents[event.object.id[2]])
      [] event.type = "payment_intent.payment_failed" ->
            [db |-> handle_failed_payment(d, event.object), raised |-> None]
      [] event.type = "charge.refunded" ->
            [db |-> handle_refund(d, event.object), raised |-> None]
      [] OTHER -> [db |-> d, raised |-> None]

\* A Stripe event about payment intent k
StripeEvent(type, k, amount_refunded) ==
    [type |-> type,
     object |-> [id |-> IF type = "charge.refunded" THEN ChargeId(k)
                        ELSE PaymentIntentId(k),
                 payment_intent |-> PaymentIntentId(k),
                 amount_refunded |-> amount_refunded]]

\* stripe.PaymentIntent.create
NewIntent(type, amount) ==
    [status |-> "requires_payment_method", type |-> type, amount |-> amount,
     amount_refunded |-> 0]

PaymentInit ==
    /\ request = BaseRequest
    /\ response = Pending
    /\ calls = NotStarted
    /\ StoresIdle

\* create_item_purchase_intent: the intent at Stripe, then the transaction
\* record
CreateItemPurchaseIntent ==
    \E buyer_id \in PaymentUsers, amount \in ChargeCents :
        LET k == Len(stripe.intents) + 1
        IN  /\ k <= MaxIntents
            /\ stripe' = [stripe EXCEPT !.intents = Append(@, NewIntent("item_purchase", amount))]
            /\ db' = create_transaction_record(db, buyer_id, "item_purchase",
                        PaymentIntentId(k), [item_id |-> "item_1", plan_id |-> None])
            /\ returned' = [call |-> "create_item_purchase_intent",
                            payment_intent_id |-> PaymentIntentId(k)]
            /\ UNCHANGED <<request, response, calls, firestore, running>>

\* create_subscription_intent: the intent at Stripe, then the subscription
\* record; no transaction record is written
CreateSubscriptionIntent ==
    \E user_id \in PaymentUsers, plan_id \in SubscriptionPlans, amount \in ChargeCents :
        LET k == Len(stripe.intents) + 1
        IN  /\ k <= MaxIntents
            /\ stripe' = [stripe EXCEPT !.intents = Append(@, NewIntent("subscription", amount))]
            /\ db' = create_subscription_record(db, user_id, plan_id, PaymentIntentId(k))
            /\ returned' = [call |-> "create_subscription_intent",
                            payment_intent_id |-> PaymentIntentId(k)]
            /\ UNCHANGED <<request, response, calls, firestore, running>>

\* Stripe: a payment attempt on an intent goes to processing, succeeds, or
\* fails and leaves the intent waiting for another payment method. Success
\* and failure each emit a webhook event.
PaymentAttempt ==
    \E k \in DOMAIN stripe.intents, outcome \in {"processing", "succeeded", "failed"} :
        /\ stripe.intents[k].status \in {"requires_payment_method", "processing"}
        /\ stripe.intents[k].status = "processing" => outcome # "processing"
        /\ stripe' =
            CASE outcome = "processing" ->
                    [stripe EXCEPT !.intents[k].status = "processing"]
              [] outcome = "succeeded" ->
                    [stripe EXCEPT !.intents[k].status = "succeeded",
                        !.events = @ \cup {StripeEvent("payment_intent.succeeded", k, 0)}]
              [] outcome = "failed" ->
                    [stripe EXCEPT !.intents[k].status = "requires_payment_method",
                        !.events = @ \cup {StripeEvent("payment_intent.payment_failed", k, 0)}]
        /\ UNCHANGED <<request, response, calls, db, firestore, running, returned>>

\* Stripe: all or part of a succeeded charge is refunded
ChargeRefunded ==
    \E k \in DOMAIN stripe.intents, cents \in RefundCents :
        /\ stripe.intents[k].status = "succeeded"
        /\ stripe.intents[k].amount_refunded < cents
        /\ cents <= stripe.intents[k].amount
        /\ stripe' = [stripe EXCEPT !.intents[k].amount_refunded = cents,
                        !.events = @ \cup {StripeEvent("charge.refunded", k, cents)}]
        /\ UNCHANGED <<request, response, calls, db, firestore, running, returned>>

\* POST /payments/confirm: the client asks for an intent's transaction to be
\* brought up to date
ConfirmPayment ==
    \E k \in DOMAIN stripe.intents :
        LET outcome == confirm_payment(db, PaymentIntentId(k), stripe.intents[k])
        IN  /\ db' = outcome.db
            /\ returned' = [call |-> "confirm_payment",
                            payment_intent_id |-> PaymentIntentId(k),
                            raised |-> outcome.raised]
            /\ UNCHANGED <<request, response, calls, stripe, firestore, running>>

\* POST /payments/webhook: Stripe delivers one of its pending events, in
\* any order
HandleStripeWebhook ==
    \E event \in stripe.events :
        LET outcome == handle_stripe_webhook(db, event, stripe.intents)
        IN  /\ db' = outcome.db
            /\ stripe' = [stripe EXCEPT !.events = @ \ {event}]
            /\ returned' = [call |-> "handle_stripe_webhook", event |-> event,
                            raised |-> outcome.raised]
            /\ UNCHANGED <<request, response, calls, firestore, running>>

PaymentNext ==
    \/ CreateItemPurchaseIntent
    \/ CreateSubscriptionIntent
    \/ PaymentAttempt
    \/ ChargeRefunded
    \/ ConfirmPayment
    \/ HandleStripeWebhook

PaymentSpec == PaymentInit /\ [][PaymentNext]_vars

\* The webhook events delivered by the step
Delivered == stripe.events \ stripe'.events

\* C22: every transaction record is created with status 'pending', and a
\* transaction whose status is 'completed' is never set back to 'pending',
\* 'processing' or 'failed' by a later confirm_payment call or webhook event.
C22_StatusNeverRegresses ==
    [][/\ \A k \in DOMAIN db'.transactions \ DOMAIN db.transactions :
            db'.transactions[k].status = "pending"
       /\ \A k \in DOMAIN db.transactions :
            db.transactions[k].status = "completed"
                => db'.transactions[k].status \notin {"pending", "processing", "failed"}]_vars

\* C23: delivery of payment_intent.succeeded for an intent made by
\* create_subscription_intent leaves the subscription record created with
\* that intent with status 'active'.
C23_WebhookActivatesSubscription ==
    [][\A event \in Delivered :
        event.type = "payment_intent.succeeded"
            => \A k \in DOMAIN db.user_subscriptions :
                db.user_subscriptions[k].stripe_payment_intent_id = event.object.id
                    => db'.user_subscriptions[k].status = "active"]_vars

\* C24: delivery of charge.refunded for the charge of a completed item
\* purchase leaves its transaction with status 'refunded' and refund_amount
\* equal to the refunded amount in dollars.
C24_WebhookRecordsRefund ==
    [][\A event \in Delivered :
        event.type = "charge.refunded"
            => \A k \in DOMAIN db.transactions :
                (/\ db.transactions[k].stripe_payment_intent_id = event.object.payment_intent
                 /\ db.transactions[k].type = "item_purchase"
                 /\ db.transactions[k].status = "completed")
                    => /\ db'.transactions[k].status = "refunded"
                       /\ db'.transactions[k].refund_amount
                            = <<event.object.amount_refunded, 100>>]_vars

\* ---------------------------------------------------------------- sketchbook

\* User ids are text: a sequence of characters
SketchbookUsers == {<<"u", "1">>, <<"u", "2">>}

ReactionTypes == {"like", "love"}

\* A row of sketchbook_posts as create_sketchbook_post inserts it: the
\* counters start at the column default 0; created_at follows the row id
NewPost(id, sketchbook_id, post_type, visibility, poll_options) ==
    [id |-> id, sketchbook_id |-> sketchbook_id, author_user_id |-> <<"u", "1">>,
     post_type |-> post_type, visibility |-> visibility,
     poll_options |-> poll_options, reactions_count |-> 0, created_at |-> id]

\* The options of a new poll
NewPollOptions == <<[id |-> "a", votes |-> 0], [id |-> "b", votes |-> 0]>>

\* Two sketchbooks and the posts made in them: in sketchbook 1 a public
\* update, a members-only update, a public poll; in sketchbook 2 a
\* members-only update
SeededDb ==
    [EmptyDb EXCEPT
        !.sketchbooks = <<[members_count |-> 0], [members_count |-> 0]>>,
        !.sketchbook_posts =
            <<NewPost(1, 1, "update", "public", None),
              NewPost(2, 1, "update", "members", None),
              NewPost(3, 1, "poll", "public", NewPollOptions),
              NewPost(4, 2, "update", "members", None)>>]

\* The rows of sketchbook_reactions of a post
ReactionsOf(d, post_id) == {r \in d.sketchbook_reactions : r.post_id = post_id}

\* conn.execute returns PostgreSQL's command tag, such as "DELETE 0"
CommandTag(command, rows) == <<command, rows>>

\* add_reaction: INSERT ... ON CONFLICT DO NOTHING, then reactions_count + 1
add_reaction(d, post_id, user_id, reaction_type) ==
    LET row == [post_id |-> post_id, user_id |-> user_id, reaction_type |-> reaction_type]
    IN  [db |-> [d EXCEPT !.sketchbook_reactions = @ \cup {row},
                          !.sketchbook_posts[post_id].reactions_count = @ + 1],
         result |-> TRUE]

\* remove_reaction: DELETE, then, if the command tag is true,
\* reactions_count = GREATEST(0, reactions_count - 1)
remove_reaction(d, post_id, user_id, reaction_type) ==
    LET row == [post_id |-> post_id, user_id |-> user_id, reaction_type |-> reaction_type]
        deleted == d.sketchbook_reactions \cap {row}
        result == CommandTag("DELETE", Cardinality(deleted))
    IN  IF Truthy(result)
        THEN [db |-> [d EXCEPT !.sketchbook_reactions = @ \ {row},
                               !.sketchbook_posts[post_id].reactions_count = Max(0, @ - 1)],
              result |-> TRUE]
        ELSE [db |-> [d EXCEPT !.sketchbook_reactions = @ \ {row}], result |-> FALSE]

\* The largest reactions_count a behaviour reaches
MaxReactionsCount == 3

ReactionPosts == {1}

ReactionInit ==
    /\ request = BaseRequest
    /\ response = Pending
    /\ calls = NotStarted
    /\ db = SeededDb
    /\ stripe = NoStripe
    /\ firestore = EmptyFirestore
    /\ running = <<>>
    /\ returned = NoCall

\* POST /sketchbook/posts/{post_id}/react
AddReaction ==
    \E post_id \in ReactionPosts, user_id \in SketchbookUsers, reaction_type \in ReactionTypes :
        LET outcome == add_reaction(db, post_id, user_id, reaction_type)
        IN  /\ db.sketchbook_posts[post_id].reactions_count < MaxReactionsCount
            /\ db' = outcome.db
            /\ returned' = [call |-> "add_reaction", result |-> outcome.result,
                            row |-> [post_id |-> post_id, user_id |-> user_id,
                                     reaction_type |-> reaction_type]]
            /\ UNCHANGED <<request, response, calls, stripe, firestore, running>>

\* DELETE /sketchbook/posts/{post_id}/react
RemoveReaction ==
    \E post_id \in ReactionPosts, user_id \in SketchbookUsers, reaction_type \in ReactionTypes :
        LET outcome == remove_reaction(db, post_id, user_id, reaction_type)
        IN  /\ db' = outcome.db
            /\ returned' = [call |-> "remove_reaction", result |-> outcome.result,
                            row |-> [post_id |-> post_id, user_id |-> user_id,
                                     reaction_type |-> reaction_type]]
            /\ UNCHANGED <<request, response, calls, stripe, firestore, running>>

ReactionNext == AddReaction \/ RemoveReaction

ReactionSpec == ReactionInit /\ [][ReactionNext]_vars

\* C25: after every add_reaction or remove_reaction call a post's
\* reactions_count is the number of its reaction rows, and remove_reaction
\* for a reaction that is not stored returns False and leaves
\* reactions_count as it was.
C25_ReactionsCountMatchesRows ==
    [][/\ \A p \in ReactionPosts :
            db'.sketchbook_posts[p].reactions_count = Cardinality(ReactionsOf(db', p))
       /\ (returned'.call = "remove_reaction" /\ returned'.row \notin db.sketchbook_reactions)
            => /\ returned'.result = FALSE
               /\ db'.sketchbook_posts[returned'.row.post_id].reactions_count
                    = db.sketchbook_posts[returned'.row.post_id].reactions_count]_vars

\* ---------------------------------------------------------------- membership

\* The rows of sketchbook_memberships of a sketchbook
MembersOf(d, sketchbook_id) ==
    {m \in d.sketchbook_memberships : m.sketchbook_id = sketchbook_id}

\* request_membership: INSERT ... ON CONFLICT (sketchbook_id, user_id) DO
\* UPDATE SET status ... RETURNING: the row is returned whether inserted or
\* updated, and members_count + 1 follows whenever a row is returned
request_membership(d, sketchbook_id, user_id) ==
    LET row == [sketchbook_id |-> sketchbook_id, user_id |-> user_id, status |-> "active"]
        others == {m \in d.sketchbook_memberships :
                      ~(m.sketchbook_id = sketchbook_id /\ m.user_id = user_id)}
    IN  [db |-> [d EXCEPT !.sketchbook_memberships = others \cup {row},
                          !.sketchbooks[sketchbook_id].members_count = @ + 1],
         result |-> row]

\* ORDER BY created_at DESC
RECURSIVE OrderByCreatedAtDesc(_)
OrderByCreatedAtDesc(rows) ==
    IF rows = {} THEN <<>>
    ELSE LET newest == CHOOSE r \in rows : \A q \in rows : r.created_at >= q.created_at
         IN  <<newest>> \o OrderByCreatedAtDesc(rows \ {newest})

\* get_sketchbook_posts with a membership lookup that accepts an active
\* membership in any sketchbook
get_sketchbook_posts_any_sketchbook(d, sketchbook_id, user_id, limit) ==
    LET has_membership ==
            /\ Truthy(user_id)
            /\ \E m \in d.sketchbook_memberships :
                /\ m.user_id = user_id
                /\ m.status = "active"
        rows == {d.sketchbook_posts[p] : p \in
                    {p \in DOMAIN d.sketchbook_posts :
                        /\ d.sketchbook_posts[p].sketchbook_id = sketchbook_id
                        /\ has_membership \/ d.sketchbook_posts[p].visibility = "public"}}
        ordered == OrderByCreatedAtDesc(rows)
    IN  SubSeq(ordered, 1, Min(limit, Len(ordered)))

\* get_sketchbook_posts: the membership lookup (skipped for a user_id that
\* is None or empty), then the posts of the sketchbook, all of them for an
\* active member and the public ones otherwise, newest first, LIMIT limit
get_sketchbook_posts(d, sketchbook_id, user_id, limit) ==
    LET has_membership ==
            /\ Truthy(user_id)
            /\ \E m \in d.sketchbook_memberships :
                /\ m.sketchbook_id = sketchbook_id
                /\ m.user_id = user_id
                /\ m.status = "active"
        rows == {d.sketchbook_posts[p] : p \in
                    {p \in DOMAIN d.sketchbook_posts :
                        /\ d.sketchbook_posts[p].sketchbook_id = sketchbook_id
                        /\ has_membership \/ d.sketchbook_posts[p].visibility = "public"}}
        ordered == OrderByCreatedAtDesc(rows)
    IN  SubSeq(ordered, 1, Min(limit, Len(ordered)))

\* The largest members_count a behaviour reaches
MaxMembersCount == 2

\* The limits callers pass; 50 is the default
PostLimits == {0, 1, 50}

MembershipInit ==
    /\ request = BaseRequest
    /\ response = Pending
    /\ calls = NotStarted
    /\ db = SeededDb
    /\ stripe = NoStripe
    /\ firestore = EmptyFirestore
    /\ running = <<>>
    /\ returned = NoCall

\* POST /sketchbook/{sketchbook_id}/membership
RequestMembership ==
    \E sketchbook_id \in DOMAIN db.sketchbooks, user_id \in SketchbookUsers :
        LET outcome == request_membership(db, sketchbook_id, user_id)
        IN  /\ db.sketchbooks[sketchbook_id].members_count < MaxMembersCount
            /\ db' = outcome.db
            /\ returned' = [call |-> "request_membership", result |-> outcome.result]
            /\ UNCHANGED <<request, response, calls, stripe, firestore, running>>

\* GET /sketchbook/{sketchbook_id}/posts
GetSketchbookPosts ==
    \E sketchbook_id \in DOMAIN db.sketchbooks, user_id \in SketchbookUsers \cup {None},
       limit \in PostLimits :
        /\ returned' = [call |-> "get_sketchbook_posts", sketchbook_id |-> sketchbook_id,
                        user_id |-> user_id, limit |-> limit,
                        result |-> get_sketchbook_posts(db, sketchbook_id, user_id, limit)]
        /\ UNCHANGED <<request, response, calls, db, stripe, firestore, running>>

MembershipNext == RequestMembership \/ GetSketchbookPosts

MembershipSpec == MembershipInit /\ [][MembershipNext]_vars

\* C26: a sketchbook's members_count is the number of distinct users
\* holding a membership row for it, so a repeated request by a member
\* changes nothing.
C26_MembersCountMatchesRows ==
    \A s \in DOMAIN db.sketchbooks :
        db.sketchbooks[s].members_count
            = Cardinality({m.user_id : m \in MembersOf(db, s)})

\* The caller of the last get_sketchbook_posts call is an active member of
\* the sketchbook it asked for
CallerIsActiveMember ==
    \E m \in db.sketchbook_memberships :
        /\ m.sketchbook_id = returned.sketchbook_id
        /\ m.user_id = returned.user_id
        /\ m.status = "active"

\* C28: get_sketchbook_posts returns posts of the sketchbook asked for, a
\* post that is not public only to a caller with an active membership in
\* that sketchbook, and never more than limit posts.
C28_MembersOnlyPostsNeedMembership ==
    returned.call = "get_sketchbook_posts"
        => /\ Len(returned.result) <= returned.limit
           /\ \A i \in DOMAIN returned.result :
                /\ returned.result[i].sketchbook_id = returned.sketchbook_id
                /\ returned.result[i].visibility # "public" => CallerIsActiveMember

\* A member of sketchbook 2 only asks for sketchbook 1, which holds a
\* members-only post, and is given its public posts, cut to the limit
C28_Witness ==
    /\ returned.call = "get_sketchbook_posts"
    /\ returned.sketchbook_id = 1
    /\ returned.user_id \in SketchbookUsers
    /\ ~CallerIsActiveMember
    /\ \E m \in db.sketchbook_memberships : m.user_id = returned.user_id
    /\ returned.limit = 1
    /\ Len(returned.result) = 1
    /\ returned.result[1].visibility = "public"

\* ---------------------------------------------------------------- polls

\* The number of vote_in_poll calls in progress at once
MaxVoteCalls == 2

VoteCalls == 1..MaxVoteCalls

PollPost == 3

OptionIds == {"a", "b"}

\* A call slot with no call in it
IdleCall == [pc |-> "idle"]

\* INSERT INTO sketchbook_poll_votes ... ON CONFLICT (post_id, user_id) DO
\* UPDATE SET option_id
UpsertVote(d, post_id, user_id, option_id) ==
    LET others == {v \in d.sketchbook_poll_votes :
                      ~(v.post_id = post_id /\ v.user_id = user_id)}
    IN  [d EXCEPT !.sketchbook_poll_votes =
            others \cup {[post_id |-> post_id, user_id |-> user_id, option_id |-> option_id]}]

\* SELECT option_id, COUNT(*) ... GROUP BY option_id, read with
\* vote_counts.get(option_id, 0)
CountVotes(d, post_id) ==
    [o \in OptionIds |->
        Cardinality({v \in d.sketchbook_poll_votes :
                        v.post_id = post_id /\ v.option_id = o})]

\* The loop over the options that sets option['votes']
WithVotes(options, vote_counts) ==
    [i \in DOMAIN options |-> [options[i] EXCEPT !.votes = vote_counts[options[i].id]]]

PollInit ==
    /\ request = BaseRequest
    /\ response = Pending
    /\ calls = NotStarted
    /\ db = SeededDb
    /\ stripe = NoStripe
    /\ firestore = EmptyFirestore
    /\ running = [c \in VoteCalls |-> IdleCall]
    /\ returned = NoCall

\* vote_in_poll, first statement: the call starts and its vote is upserted
VoteUpsert ==
    \E c \in VoteCalls, user_id \in SketchbookUsers, option_id \in OptionIds :
        /\ running[c].pc = "idle"
        /\ db' = UpsertVote(db, PollPost, user_id, option_id)
        /\ running' = [running EXCEPT ![c] =
                [pc |-> "count", post_id |-> PollPost, user_id |-> user_id,
                 option_id |-> option_id]]
        /\ UNCHANGED <<request, response, calls, stripe, firestore, returned>>

\* vote_in_poll, second statement: the votes of the post are counted
VoteCount ==
    \E c \in VoteCalls :
        /\ running[c].pc = "count"
        /\ running' = [running EXCEPT ![c] =
                [pc |-> "fetch", post_id |-> running[c].post_id,
                 vote_counts |-> CountVotes(db, running[c].post_id)]]
        /\ UNCHANGED <<request, response, calls, db, stripe, firestore, returned>>

\* vote_in_poll, third statement: the post's poll_options are fetched
VoteFetch ==
    \E c \in VoteCalls :
        /\ running[c].pc = "fetch"
        /\ running' = [running EXCEPT ![c] =
                [pc |-> "save", post_id |-> running[c].post_id,
                 vote_counts |-> running[c].vote_counts,
                 options |-> db.sketchbook_posts[running[c].post_id].poll_options]]
        /\ UNCHANGED <<request, response, calls, db, stripe, firestore, returned>>

\* vote_in_poll, last statement: the options are saved with the counts the
\* call read, and the call returns True
VoteSave ==
    \E c \in VoteCalls :
        /\ running[c].pc = "save"
        /\ db' = [db EXCEPT !.sketchbook_posts[running[c].post_id].poll_options =
                    WithVotes(running[c].options, running[c].vote_counts)]
        /\ running' = [running EXCEPT ![c] = IdleCall]
        /\ returned' = [call |-> "vote_in_poll", result |-> TRUE]
        /\ UNCHANGED <<request, response, calls, stripe, firestore>>

\* get_poll_results: the options as stored
get_poll_results(d, post_id) ==
    IF post_id \in DOMAIN d.sketchbook_posts /\ d.sketchbook_posts[post_id].post_type = "poll"
    THEN [options |-> d.sketchbook_posts[post_id].poll_options]
    ELSE None

\* GET /sketchbook/posts/{post_id}/poll
GetPollResults ==
    /\ returned' = [call |-> "get_poll_results", result |-> get_poll_results(db, PollPost)]
    /\ UNCHANGED <<request, response, calls, db, stripe, firestore, running>>

PollNext ==
    \/ VoteUpsert
    \/ VoteCount
    \/ VoteFetch
    \/ VoteSave
    \/ GetPollResults

PollSpec == PollInit /\ [][PollNext]_vars

\* C27: a user has at most one recorded vote per poll, and when no
\* vote_in_poll call is in progress each option's stored votes value is the
\* number of users whose recorded vote is that option.
C27_VotesMatchRecordedVotes ==
    /\ \A v, w \in db.sketchbook_poll_votes :
        (v.post_id = w.post_id /\ v.user_id = w.user_id) => v = w
    /\ (\A c \in VoteCalls : running[c].pc = "idle")
        => LET options == get_poll_results(db, PollPost).options
           IN  \A i \in DOMAIN options :
                options[i].votes =
                    Cardinality({v.user_id : v \in
                        {v \in db.sketchbook_poll_votes :
                            v.post_id = PollPost /\ v.option_id = options[i].id}})

\* ---------------------------------------------------------------- follow

\* The status a handler answers with when its body, wrapped in `try:` with
\* the single handler `except Exception`, decided on `decided` (200 for a
\* normal return, else the status of the HTTPException it raised):
\* HTTPException is a subclass of Exception, so the handler catches it and
\* raises HTTPException(500) in its place
except_Exception(decided) == IF decided = 200 THEN 200 ELSE 500

\* The same with `except HTTPException: raise` placed before
\* `except Exception`
except_HTTPException_raise(decided) == decided

FollowUsers == {"a", "b", "c"}

\* The user document register_user writes
NewUser == [following |-> <<>>, followers |-> <<>>]

\* Python's `x in list`
InList(x, list) == \E i \in DOMAIN list : list[i] = x

\* list.remove(x): the first occurrence goes
list_remove(list, x) ==
    LET first == CHOOSE i \in DOMAIN list : list[i] = x /\ \A j \in 1..(i - 1) : list[j] # x
    IN  SubSeq(list, 1, first - 1) \o SubSeq(list, first + 1, Len(list))

\* follow_user with an unfollow that leaves the target's followers alone
follow_user_keeps_follower(fs, follower_id, user_id) ==
    LET following == fs.users[follower_id].following
        action == IF InList(user_id, following) THEN "unfollowed" ELSE "followed"
        updated == IF action = "unfollowed" THEN list_remove(following, user_id)
                   ELSE Append(following, user_id)
        fs1 == [fs EXCEPT !.users[follower_id].following = updated]
        followers == fs1.users[user_id].followers
        fs2 == [fs1 EXCEPT !.users[user_id].followers =
                    IF action = "followed" THEN Append(followers, follower_id)
                    ELSE followers]
    IN  IF follower_id \notin DOMAIN fs.users
        THEN [firestore |-> fs, decided |-> 404, status_code |-> except_Exception(404),
              action |-> "none"]
        ELSE [firestore |-> IF user_id \in DOMAIN fs1.users THEN fs2 ELSE fs1,
              decided |-> 200, status_code |-> except_Exception(200), action |-> action]

\* PUT /api/users/{user_id}/follow, the whole handler: the caller's
\* following list is toggled and written, then the target's document is
\* read and, if it exists, its followers list is brought in line
follow_user(fs, follower_id, user_id) ==
    LET following == fs.users[follower_id].following
        action == IF InList(user_id, following) THEN "unfollowed" ELSE "followed"
        updated == IF action = "unfollowed" THEN list_remove(following, user_id)
                   ELSE Append(following, user_id)
        fs1 == [fs EXCEPT !.users[follower_id].following = updated]
        followers == fs1.users[user_id].followers
        fs2 == [fs1 EXCEPT !.users[user_id].followers =
                    IF action = "followed" THEN Append(followers, follower_id)
                    ELSE IF InList(follower_id, followers)
                         THEN list_remove(followers, follower_id)
                    ELSE followers]
    IN  IF follower_id \notin DOMAIN fs.users
        THEN [firestore |-> fs, decided |-> 404, status_code |-> except_Exception(404),
              action |-> "none"]
        ELSE [firestore |-> IF user_id \in DOMAIN fs1.users THEN fs2 ELSE fs1,
              decided |-> 200, status_code |-> except_Exception(200), action |-> action]

\* Every user is registered and follows nobody
FollowInit ==
    /\ request = BaseRequest
    /\ response = Pending
    /\ calls = NotStarted
    /\ db = EmptyDb
    /\ stripe = NoStripe
    /\ firestore = [EmptyFirestore EXCEPT !.users = [u \in FollowUsers |-> NewUser]]
    /\ running = <<>>
    /\ returned = NoCall

FollowUser ==
    \E follower_id \in FollowUsers, user_id \in FollowUsers :
        LET outcome == follow_user(firestore, follower_id, user_id)
        IN  /\ firestore' = outcome.firestore
            /\ returned' = [call |-> "follow_user", follower_id |-> follower_id,
                            user_id |-> user_id, action |-> outcome.action,
                            decided |-> outcome.decided,
                            status_code |-> outcome.status_code]
            /\ UNCHANGED <<request, response, calls, db, stripe, running>>

FollowNext == FollowUser

FollowSpec == FollowInit /\ [][FollowNext]_vars

\* The members of a list
Members(list) == {list[i] : i \in DOMAIN list}

NoDuplicate(list) == Cardinality(Members(list)) = Len(list)

\* B is in A's following exactly when A is in B's followers, and no list
\* holds a duplicate
FollowListsConsistent ==
    /\ \A a, b \in FollowUsers :
        InList(b, firestore.users[a].following) <=> InList(a, firestore.users[b].followers)
    /\ \A a \in FollowUsers :
        /\ NoDuplicate(firestore.users[a].following)
        /\ NoDuplicate(firestore.users[a].followers)

\* The documents after two consecutive follow_user calls by a on b
ToggledTwice(a, b) ==
    follow_user(follow_user(firestore, a, b).firestore, a, b).firestore

\* C29 as stated: the lists are consistent and free of duplicates, and two
\* consecutive follow_user calls by A on B leave A's following and B's
\* followers the lists they were.
C29_ToggleTwiceRestoresLists ==
    /\ FollowListsConsistent
    /\ \A a, b \in FollowUsers :
        /\ ToggledTwice(a, b).users[a].following = firestore.users[a].following
        /\ ToggledTwice(a, b).users[b].followers = firestore.users[b].followers

\* C29, amended: the lists are consistent and free of duplicates, and two
\* consecutive follow_user calls by A on B leave A's following and B's
\* followers with the members they had, and leave every other list as it was.
C29_ToggleTwiceRestoresMembers ==
    /\ FollowListsConsistent
    /\ \A a, b \in FollowUsers :
        LET twice == ToggledTwice(a, b)
        IN  /\ Members(twice.users[a].following) = Members(firestore.users[a].following)
            /\ Members(twice.users[b].followers) = Members(firestore.users[b].followers)
            /\ NoDuplicate(twice.users[a].following)
            /\ NoDuplicate(twice.users[b].followers)
            /\ \A c \in FollowUsers :
                /\ c # a => twice.users[c].following = firestore.users[c].following
                /\ c # b => twice.users[c].followers = firestore.users[c].followers

\* a follows b and then c, and has just followed c: an unfollow of b
\* followed by a follow of b moves b behind c
C29_Witness ==
    /\ returned.call = "follow_user"
    /\ returned.action = "followed"
    /\ firestore.users["a"].following = <<"b", "c">>
    /\ ToggledTwice("a", "b").users["a"].following = <<"c", "b">>

\* ---------------------------------------------------------------- routes

\* What a route answered: the status its body decided on and the status
\* the client receives
Answered(route, decided, status_code) ==
    [call |-> route, decided |-> decided, status_code |-> status_code]

\* POST /generate_description: 400 for a payload without an image, raised
\* inside the handler's try
generate_description(image) ==
    LET decided == IF image = "missing" THEN 400 ELSE 200
    IN  Answered("generate_description", decided, except_Exception(decided))

\* POST /add_item: 400 for a payload without an image or a title; this
\* handler re-raises an HTTPException before its catch-all
add_item(image, titled) ==
    LET decided == IF image = "missing" \/ ~titled THEN 400 ELSE 200
    IN  Answered("add_item", decided, except_HTTPException_raise(decided))

\* update_sketchbook_settings returns None for a payload that sets nothing
\* and for an id that matches no row
update_sketchbook(d, sketchbook_id, sets_something) ==
    LET decided == IF sets_something /\ sketchbook_id \in DOMAIN d.sketchbooks
                   THEN 200 ELSE 404
    IN  Answered("update_sketchbook", decided, except_Exception(decided))

\* delete_sketchbook_post: DELETE ... WHERE id = $1 AND author_user_id = $2
delete_sketchbook_post(d, post_id, author_user_id) ==
    LET found == /\ post_id \in DOMAIN d.sketchbook_posts
                 /\ d.sketchbook_posts[post_id].author_user_id = author_user_id
    IN  [db |-> IF found
                THEN [d EXCEPT !.sketchbook_posts =
                        [p \in DOMAIN @ \ {post_id} |-> @[p]]]
                ELSE d,
         result |-> found]

\* DELETE /sketchbook/posts/{post_id}
delete_post(d, post_id, user_id) ==
    LET outcome == delete_sketchbook_post(d, post_id, user_id)
        decided == IF outcome.result THEN 200 ELSE 404
    IN  [db |-> outcome.db,
         answer |-> Answered("delete_post", decided, except_Exception(decided))]

\* GET /sketchbook/posts/{post_id}/poll
get_poll(d, post_id) ==
    LET decided == IF get_poll_results(d, post_id) = None THEN 404 ELSE 200
    IN  Answered("get_poll", decided, except_Exception(decided))

\* GET /api/users/{user_id}
get_user(fs, user_id) ==
    LET decided == IF user_id \in DOMAIN fs.users THEN 200 ELSE 404
    IN  Answered("get_user", decided, except_Exception(decided))

\* POST /api/items/{item_id}/images: 404 for an unknown item, 403 for a
\* caller who is not its owner, else the images are stored on the item
upload_item_images(fs, item_id, uid) ==
    LET decided == IF item_id \notin DOMAIN fs.items THEN 404
                   ELSE IF fs.items[item_id].owner_id # uid THEN 403
                   ELSE 200
    IN  [firestore |-> IF decided = 200
                       THEN [fs EXCEPT !.items[item_id].has_images = TRUE]
                       ELSE fs,
         answer |-> Answered("upload_item_images", decided, except_Exception(decided))]

\* Ids that name a row or a document, and ids that name none
RoutePostIds == {PollPost, 1, 9}

RouteSketchbookIds == {1, 9}

RouteItemIds == {"item_1", "item_9"}

\* Users a and b are registered, c is not; a owns item_1; the sketchbooks
\* hold their posts
RouteInit ==
    /\ request = BaseRequest
    /\ response = Pending
    /\ calls = NotStarted
    /\ db = SeededDb
    /\ stripe = NoStripe
    /\ firestore = [users |-> [u \in {"a", "b"} |-> NewUser],
                    items |-> [i \in {"item_1"} |-> [owner_id |-> "a", has_images |-> FALSE]]]
    /\ running = <<>>
    /\ returned = NoCall

GenerateDescription ==
    \E image \in {"ok", "missing"} :
        /\ returned' = generate_description(image)
        /\ UNCHANGED <<request, response, calls, db, stripe, firestore, running>>

AddItem ==
    \E image \in {"ok", "missing"}, titled \in BOOLEAN :
        /\ returned' = add_item(image, titled)
        /\ UNCHANGED <<request, response, calls, db, stripe, firestore, running>>

UpdateSketchbook ==
    \E sketchbook_id \in RouteSketchbookIds, sets_something \in BOOLEAN :
        /\ returned' = update_sketchbook(db, sketchbook_id, sets_something)
        /\ UNCHANGED <<request, response, calls, db, stripe, firestore, running>>

DeletePost ==
    \E post_id \in RoutePostIds, user_id \in SketchbookUsers :
        LET outcome == delete_post(db, post_id, user_id)
        IN  /\ db' = outcome.db
            /\ returned' = outcome.answer
            /\ UNCHANGED <<request, response, calls, stripe, firestore, running>>

GetPoll ==
    \E post_id \in RoutePostIds :
        /\ returned' = get_poll(db, post_id)
        /\ UNCHANGED <<request, response, calls, db, stripe, firestore, running>>

GetUser ==
    \E user_id \in FollowUsers :
        /\ returned' = get_user(firestore, user_id)
        /\ UNCHANGED <<request, response, calls, db, stripe, firestore, running>>

UploadItemImages ==
    \E item_id \in RouteItemIds, uid \in {"a", "b"} :
        LET outcome == upload_item_images(firestore, item_id, uid)
        IN  /\ firestore' = outcome.firestore
            /\ returned' = outcome.answer
            /\ UNCHANGED <<request, response, calls, db, stripe, running>>

RouteNext ==
    \/ GenerateDescription
    \/ AddItem
    \/ UpdateSketchbook
    \/ DeletePost
    \/ GetPoll
    \/ GetUser
    \/ FollowUser
    \/ UploadItemImages

RouteSpec == RouteInit /\ [][RouteNext]_vars

\* C21: when a handler decides on a client-error status (400, 403 or 404),
\* the client receives that status, not a 500 from the handler's catch-all.
C21_ClientErrorStatusKept ==
    (returned.call # "none" /\ returned.decided \in {400, 403, 404})
        => returned.status_code = returned.decided
====
